---- MODULE Spec2Model ----
(***************************************************************************)
(* FasTeX_Snippets: the importer of Winedt active strings                  *)
(* (src/code/read_data.py), the converters and the option stage            *)
(* (src/readwrite/write_snippets.py, src/code/write_snippets.py) and the   *)
(* CSON writer (src/readwrite/cson.py).  Python strings are TLA+ strings,  *)
(* handled character by character with Len, SubSeq and \o.  A Python value *)
(* that may be a str, a list of str or None is a record tagged by its type. *)
(***************************************************************************)
EXTENDS Integers, Sequences, FiniteSets, TLC

VARIABLES
    ini,        \* lines of the .ini file being read by process_ini
    dat_text,   \* lines of the .dat file of templates (read_dat)
    cursor,     \* number of lines of ini already consumed by readline
    snippets,   \* the list process_ini has built so far
    pc,         \* where the running call is
    macro,      \* argument of get_macro_template / get_macro_insert
    body,       \* the body computed by the call
    text,       \* a source string given to escape_body
    trigger,    \* trigger argument of make_description
    describe,   \* result of make_description
    result,     \* what the finished call returned or raised, None while it runs
    given,      \* the parts the macro under test was assembled from
    cson_file,  \* the CSONWriter of dump: its file, indent, level and parent
    stack       \* the write_dict and write_list calls in progress, outermost first

vars == <<ini, dat_text, cursor, snippets, pc, macro, body, text, trigger, describe,
          result, given, cson_file, stack>>

-----------------------------------------------------------------------------
(* Bounds of the model *)

\* longest generated source string (literal inserted text, description input)
MaxTextLen == 3
\* most blocks of a generated .ini file
MaxBlocks == 3
\* most lines of a generated template body
MaxBodyLines == 3
\* largest LineUp / CharLeft count of a generated macro (the patterns admit 0 to 9)
MaxNum == 4
\* most records of a list given to apply_options
MaxRecords == 2
\* values in a structure given to dump (containers and leaves), at most
MaxNodes == 4

-----------------------------------------------------------------------------
(* Python values *)

None == [kind |-> "None"]
Str(s) == [kind |-> "str", val |-> s]
List(l) == [kind |-> "list", val |-> l]
Raise(e) == [kind |-> "raise", val |-> e]
Unused == "unused"

-----------------------------------------------------------------------------
(* Python str operations *)

Char(s, i) == SubSeq(s, i, i)

Min(S) == CHOOSE x \in S : \A y \in S : x <= y
Max(S) == CHOOSE x \in S : \A y \in S : x >= y

\* s[:-k] for k >= 0; s[:-0] is s[:0], the empty string
SliceToNeg(s, k) == IF k = 0 THEN SubSeq(s, 1, 0) ELSE SubSeq(s, 1, Len(s) - k)

\* s[-k:] for k >= 0; s[-0:] is s[0:], the whole string
SliceFromNeg(s, k) ==
    IF k = 0 THEN s ELSE SubSeq(s, Max({1, Len(s) - k + 1}), Len(s))

startswith(s, p) == Len(s) >= Len(p) /\ SubSeq(s, 1, Len(p)) = p
endswith(s, p) == Len(s) >= Len(p) /\ SubSeq(s, Len(s) - Len(p) + 1, Len(s)) = p

\* s[i..] starts with p
HasAt(s, i, p) == i + Len(p) - 1 <= Len(s) /\ SubSeq(s, i, i + Len(p) - 1) = p

\* str.replace(old, new): left to right, occurrences do not overlap
RECURSIVE ReplaceFrom(_, _, _, _)
ReplaceFrom(s, i, old, new) ==
    IF i > Len(s) THEN ""
    ELSE IF HasAt(s, i, old) THEN new \o ReplaceFrom(s, i + Len(old), old, new)
    ELSE Char(s, i) \o ReplaceFrom(s, i + 1, old, new)

replace(s, old, new) == ReplaceFrom(s, 1, old, new)

\* str.count(sub): occurrences that do not overlap
RECURSIVE CountFrom(_, _, _)
CountFrom(s, i, sub) ==
    IF i > Len(s) THEN 0
    ELSE IF HasAt(s, i, sub) THEN 1 + CountFrom(s, i + Len(sub), sub)
    ELSE CountFrom(s, i + 1, sub)

count(s, sub) == CountFrom(s, 1, sub)

contains(s, sub) == \E i \in 1..Len(s) : HasAt(s, i, sub)

\* str.lstrip(chars)
RECURSIVE lstrip(_, _)
lstrip(s, chars) ==
    IF Len(s) > 0 /\ Char(s, 1) \in chars THEN lstrip(SubSeq(s, 2, Len(s)), chars)
    ELSE s

-----------------------------------------------------------------------------
(* Regular expression classes *)

Digits == {"0", "1", "2", "3", "4", "5", "6", "7", "8", "9"}
IsDigit(c) == c \in Digits
DigitVal(c) == CHOOSE n \in 0..9 : Char("0123456789", n + 1) = c

\* \s of the re module, for str patterns
Whitespace == {" ", "\t", "\n", "\r", "\f"}
NoWhitespace(s) == \A i \in 1..Len(s) : Char(s, i) \notin Whitespace
\* what `.` matches
NoNewline(s) == \A i \in 1..Len(s) : Char(s, i) # "\n"
\* `$` at position i (the next character to read): the end of the string,
\* or just before a newline that ends the string
AtEnd(s, i) == i = Len(s) + 1 \/ (i = Len(s) /\ Char(s, i) = "\n")

-----------------------------------------------------------------------------
(* TAB_STOP = (?<!\\)\$\d *)

TAB_STOP(s, i) ==
    /\ i < Len(s)
    /\ Char(s, i) = "$"
    /\ IsDigit(Char(s, i + 1))
    /\ (i = 1 \/ Char(s, i - 1) # "\\")

\* TAB_STOP.sub('', s, count=n), scanning from position i
RECURSIVE TabStopSubFrom(_, _, _)
TabStopSubFrom(s, i, n) ==
    IF i > Len(s) THEN ""
    ELSE IF n > 0 /\ TAB_STOP(s, i) THEN TabStopSubFrom(s, i + 2, n - 1)
    ELSE Char(s, i) \o TabStopSubFrom(s, i + 1, n)

\* the matches of TAB_STOP.finditer(s), as the strings matched, in order
RECURSIVE TabStopsFrom(_, _)
TabStopsFrom(s, i) ==
    IF i > Len(s) THEN <<>>
    ELSE IF TAB_STOP(s, i) THEN <<SubSeq(s, i, i + 1)>> \o TabStopsFrom(s, i + 2)
    ELSE TabStopsFrom(s, i + 1)

TabStops(s) == TabStopsFrom(s, 1)

-----------------------------------------------------------------------------
(* escape_body, make_description *)

\* escape_str that forgets to escape
escape_str_identity(s) == s

escape_str(s) == replace(s, "$", "\\$")

RECURSIVE MapEscape(_)
MapEscape(l) == IF l = <<>> THEN <<>> ELSE <<escape_str(Head(l))>> \o MapEscape(Tail(l))

escape_body(b) ==
    IF b.kind = "list" THEN List(MapEscape(b.val)) ELSE Str(escape_str(b.val))

\* count of TAB_STOP.sub in make_description
SubCount == 9

describe_str(s) == replace(TabStopSubFrom(s, 1, SubCount), "\\$", "$")

\* ";".join([x[:10] for x in body])
RECURSIVE JoinHeads(_)
JoinHeads(l) ==
    IF l = <<>> THEN ""
    ELSE IF Len(l) = 1 THEN SubSeq(l[1], 1, Min({10, Len(l[1])}))
    ELSE SubSeq(l[1], 1, Min({10, Len(l[1])})) \o ";" \o JoinHeads(Tail(l))

\* make_description on a list; body[0] of an empty list raises IndexError
RECURSIVE describe_list(_, _)
describe_list(l, trig) ==
    IF l = <<>> THEN Raise("IndexError")
    ELSE LET d == describe_str(l[1]) IN
         IF startswith(d, "%====") \/ startswith(d, "%----")
         THEN IF startswith(trig, "c") THEN Str("Divider: " \o JoinHeads(l))
              ELSE describe_list(Tail(l), trig)
         ELSE Str(lstrip(d, {"%", "&"}))

make_description(b, trig) ==
    IF b.kind = "list" THEN describe_list(b.val, trig) ELSE Str(describe_str(b.val))

-----------------------------------------------------------------------------
(* The regular expressions for reading Winedt data.  A compiled pattern is  *)
(* an operator from the string to None or to a match with its groups();    *)
(* pattern.match anchors at the start of the string.  A greedy group takes *)
(* the longest text for which the rest of the pattern still matches.       *)

Match(groups) == [kind |-> "match", groups |-> groups]

\* of a set of candidate matches, the one whose first group is longest
Greedy(cands) ==
    IF cands = {} THEN None
    ELSE Match((CHOOSE c \in cands :
                    \A d \in cands : Len(c.groups[1]) >= Len(d.groups[1])).groups)

AssignLit == "Assign('FasTeX','"
ExeLit == "');Exe('%b\\Macros\\Active Strings\\FasTeX\\FasTeX_Templates"
EdtLit == "edt');"

\* TEMPLATE_PRE: the candidates [groups, pos], pos the first position after it
TEMPLATE_PRE(s) ==
    IF ~startswith(s, AssignLit) THEN {}
    ELSE LET a == Len(AssignLit) IN
         { [groups |-> <<SubSeq(s, a + 1, a + k)>>,
            pos |-> a + k + Len(ExeLit) + 1 + Len(EdtLit) + 1] :
           k \in { j \in 0..(Len(s) - a) :
                     /\ HasAt(s, a + j + 1, ExeLit)
                     \* the unescaped `.` of the pattern: any character but newline
                     /\ a + j + Len(ExeLit) + 1 <= Len(s)
                     /\ Char(s, a + j + Len(ExeLit) + 1) # "\n"
                     /\ HasAt(s, a + j + Len(ExeLit) + 2, EdtLit)
                     /\ NoWhitespace(SubSeq(s, a + 1, a + j)) } }

BeginLit == "BeginGroup;Backspace("
InsLit == ");Ins("
\* the grave accent, taken out of a two-character string
Backtick == SubSeq("`'", 1, 1)
\* the character class of the quotes around the inserted text
Quotes == {Backtick, "'"}

\* number of digits from position i on
RECURSIVE DigitRun(_, _)
DigitRun(s, i) ==
    IF i <= Len(s) /\ IsDigit(Char(s, i)) THEN 1 + DigitRun(s, i + 1) ELSE 0

\* INSERT_PRE: the candidates [groups, pos]
INSERT_PRE(s) ==
    IF ~startswith(s, BeginLit) THEN {}
    ELSE LET b == Len(BeginLit)
             n == DigitRun(s, b + 1)
             q == b + n + Len(InsLit) + 1      \* position of the opening quote
         IN  IF n = 0 \/ ~HasAt(s, b + n + 1, InsLit) \/ q > Len(s)
                \/ Char(s, q) \notin Quotes
             THEN {}
             ELSE { [groups |-> <<SubSeq(s, q + 1, q + k)>>, pos |-> q + k + 4] :
                    k \in { j \in 0..(Len(s) - q) :
                              /\ HasAt(s, q + j + 2, ");")
                              /\ Char(s, q + j + 1) \in Quotes
                              /\ NoNewline(SubSeq(s, q + 1, q + j)) } }

LineUpLit == "LineUp("
TrackLit == ");TrackCaret;"
BACK_ONE == "CharLeft;"
BackSomeLit == "CharLeft("
END_GROUP == "EndGroup;"

\* LINE_UP at position i: LineUp\((\d)\);TrackCaret;
LINE_UP(s, i) ==
    /\ HasAt(s, i, LineUpLit)
    /\ i + Len(LineUpLit) <= Len(s)
    /\ IsDigit(Char(s, i + Len(LineUpLit)))
    /\ HasAt(s, i + Len(LineUpLit) + 1, TrackLit)
LineUpLen == Len(LineUpLit) + 1 + Len(TrackLit)
LineUpDigit(s, i) == Char(s, i + Len(LineUpLit))

\* BACK_SOME at position i: CharLeft\((\d)\);
BACK_SOME(s, i) ==
    /\ HasAt(s, i, BackSomeLit)
    /\ i + Len(BackSomeLit) <= Len(s)
    /\ IsDigit(Char(s, i + Len(BackSomeLit)))
    /\ HasAt(s, i + Len(BackSomeLit) + 1, ");")
BackSomeLen == Len(BackSomeLit) + 3
BackSomeDigit(s, i) == Char(s, i + Len(BackSomeLit))

\* END_GROUP at position i: EndGroup;$
EndGroupAt(s, i) == HasAt(s, i, END_GROUP) /\ AtEnd(s, i + Len(END_GROUP))

\* TEMPLATE_ZERO compiled without the closing `$`
TEMPLATE_ZERO_unanchored(s) == Greedy(TEMPLATE_PRE(s))

TEMPLATE_ZERO(s) ==
    Greedy({ c \in TEMPLATE_PRE(s) : AtEnd(s, c.pos) })

TEMPLATE_ONE(s) ==
    Greedy({ [groups |-> c.groups \o <<LineUpDigit(s, c.pos)>>, pos |-> c.pos] :
             c \in { d \in TEMPLATE_PRE(s) :
                       LINE_UP(s, d.pos) /\ AtEnd(s, d.pos + LineUpLen) } })

TEMPLATE_ONES(s) ==
    Greedy({ [groups |-> c.groups \o <<LineUpDigit(s, c.pos)>>, pos |-> c.pos] :
             c \in { d \in TEMPLATE_PRE(s) :
                       /\ LINE_UP(s, d.pos)
                       /\ HasAt(s, d.pos + LineUpLen, BACK_ONE)
                       /\ AtEnd(s, d.pos + LineUpLen + Len(BACK_ONE)) } })

INSERT_ZERO(s) ==
    Greedy({ c \in INSERT_PRE(s) : EndGroupAt(s, c.pos) })

INSERT_ONE(s) ==
    Greedy({ c \in INSERT_PRE(s) :
               HasAt(s, c.pos, BACK_ONE) /\ EndGroupAt(s, c.pos + Len(BACK_ONE)) })

INSERT_ONES(s) ==
    Greedy({ [groups |-> c.groups \o <<BackSomeDigit(s, c.pos)>>, pos |-> c.pos] :
             c \in { d \in INSERT_PRE(s) :
                       BACK_SOME(s, d.pos) /\ EndGroupAt(s, d.pos + BackSomeLen) } })

INSERT_TWO(s) ==
    Greedy({ [groups |-> c.groups \o <<BackSomeDigit(s, c.pos + Len(BACK_ONE))>>,
              pos |-> c.pos] :
             c \in { d \in INSERT_PRE(s) :
                       /\ HasAt(s, d.pos, BACK_ONE)
                       /\ BACK_SOME(s, d.pos + Len(BACK_ONE))
                       /\ EndGroupAt(s, d.pos + Len(BACK_ONE) + BackSomeLen) } })

\* pattern.match(s) for a pattern given by name
PatternMatch(pattern, s) ==
    CASE pattern = "TEMPLATE_ZERO" -> TEMPLATE_ZERO(s)
      [] pattern = "TEMPLATE_ONES" -> TEMPLATE_ONES(s)
      [] pattern = "TEMPLATE_ONE" -> TEMPLATE_ONE(s)
      [] pattern = "INSERT_ZERO" -> INSERT_ZERO(s)
      [] pattern = "INSERT_ONE" -> INSERT_ONE(s)
      [] pattern = "INSERT_ONES" -> INSERT_ONES(s)
      [] pattern = "INSERT_TWO" -> INSERT_TWO(s)

TEMPLATES == <<"TEMPLATE_ZERO", "TEMPLATE_ONES", "TEMPLATE_ONE">>
INSERTS == <<"INSERT_ZERO", "INSERT_ONE", "INSERT_ONES", "INSERT_TWO">>

\* the loop of get_macro_matches from the i-th pattern (1-based) on
RECURSIVE MatchesFrom(_, _, _)
MatchesFrom(s, patterns, i) ==
    IF i > Len(patterns) THEN [match |-> None, index |-> 0]
    ELSE LET m == PatternMatch(patterns[i], s) IN
         IF m # None THEN [match |-> m, index |-> i - 1]
         ELSE MatchesFrom(s, patterns, i + 1)

get_macro_matches(s, patterns) == MatchesFrom(s, patterns, 1)

-----------------------------------------------------------------------------
(* get_template, get_macro_template, get_macro_insert *)

\* list.index(x), 1-based; 0 when x is not in the list (ValueError)
IndexOf(l, x) ==
    IF \E i \in 1..Len(l) : l[i] = x
    THEN Min({ i \in 1..Len(l) : l[i] = x })
    ELSE 0

\* [escape_body(x[:-1]) for x in lines]
RECURSIVE StripEscape(_)
StripEscape(lines) ==
    IF lines = <<>> THEN <<>>
    ELSE <<escape_str(SliceToNeg(Head(lines), 1))>> \o StripEscape(Tail(lines))

\* get_template that swallows the ValueError and gives an empty body
get_template_swallowed(dat, trig) ==
    IF IndexOf(dat, trig \o "\n") = 0 \/ IndexOf(dat, "-" \o trig \o "-\n") = 0
    THEN List(<<>>)
    ELSE List(StripEscape(SubSeq(dat, IndexOf(dat, trig \o "\n") + 1,
                                 IndexOf(dat, "-" \o trig \o "-\n") - 1)))

get_template(dat, trig) ==
    LET open == IndexOf(dat, trig \o "\n")
        close == IndexOf(dat, "-" \o trig \o "-\n")
    IN  IF open = 0 \/ close = 0 THEN Raise("ValueError")
        \* dat_text[start:stop], start = index + 1 (0-based)
        ELSE List(StripEscape(SubSeq(dat, open + 1, close - 1)))

\* position (1-based) of l[-k]; l[-0] is l[0]; 0 when out of range (IndexError)
NegIndex(l, k) ==
    LET i == IF k = 0 THEN 1 ELSE Len(l) - k + 1 IN
    IF i >= 1 /\ i <= Len(l) THEN i ELSE 0

\* AppendStop that counts the line from the first line: body[line_num - 1]
AppendStop_from_first(lines, line_num) ==
    IF line_num < 1 \/ line_num > Len(lines) THEN Raise("IndexError")
    ELSE List([lines EXCEPT ![line_num] = @ \o "$1"])

\* body[-line_num] += "$1"
AppendStop(lines, line_num) ==
    IF NegIndex(lines, line_num) = 0 THEN Raise("IndexError")
    ELSE List([lines EXCEPT ![NegIndex(lines, line_num)] = @ \o "$1"])

\* body[-line_num] = body[-line_num][:-1] + "$1" + body[-line_num][-1:]
InsertStop(lines, line_num) ==
    IF NegIndex(lines, line_num) = 0 THEN Raise("IndexError")
    ELSE List([lines EXCEPT ![NegIndex(lines, line_num)] =
                 SliceToNeg(@, 1) \o "$1" \o SliceFromNeg(@, 1)])

\* get_macro_template after get_template has returned or raised `got`
SpliceTemplate(index, groups, got) ==
    IF got.kind = "raise" THEN got
    ELSE IF index = 2 THEN AppendStop(got.val, DigitVal(groups[2]))
    ELSE IF index = 1 THEN InsertStop(got.val, DigitVal(groups[2]))
    ELSE got

\* get_macro_template after get_macro_matches has returned mi
TemplateOf(mi, dat) ==
    IF mi.match = None THEN None
    ELSE SpliceTemplate(mi.index, mi.match.groups, get_template(dat, mi.match.groups[1]))

get_macro_template(s, dat) == TemplateOf(get_macro_matches(s, TEMPLATES), dat)

\* b[:-k] + "$1" + b[-k:]
FirstStop(b, k) == SliceToNeg(b, k) \o "$1" \o SliceFromNeg(b, k)

\* SecondStop that removes two characters: b[:-3] + "$2" + b[-1:]
SecondStop_two_removed(b) == SliceToNeg(b, 3) \o "$2" \o SliceFromNeg(b, 1)

\* second tab-stop was a Winedt bullet - remove: b[:-2] + "$2" + b[-1:]
SecondStop(b) == SliceToNeg(b, 2) \o "$2" \o SliceFromNeg(b, 1)

\* get_macro_insert after the match, b the escaped first group
SpliceInsert(index, groups, b) ==
    IF index = 0 THEN Str(b)
    ELSE IF index = 1 THEN Str(FirstStop(b, 1))
    ELSE IF index = 2 THEN Str(FirstStop(b, DigitVal(groups[2])))
    ELSE Str(SecondStop(FirstStop(b, DigitVal(groups[2]) + 1)))

\* get_macro_insert after get_macro_matches has returned mi
InsertOf(mi) ==
    IF mi.match = None THEN None
    ELSE SpliceInsert(mi.index, mi.match.groups, escape_str(mi.match.groups[1]))

get_macro_insert(s) == InsertOf(get_macro_matches(s, INSERTS))

-----------------------------------------------------------------------------
(* choose_mode *)

TEXT_START == {"\\usepackage", "\\new", "\\renew", "\\leftline", "\\rightline",
               "\\doc", "\\text", "\\section", "\\fbox"}
MATHS_START == {"\\frac", "\\math", "\\operatorname", "\\sqrt", "\\left", "\\right",
                "\\var", "\\over", "\\wide", "\\dot", "\\ddot", "\\bar", "\\vec",
                "\\hat", "\\tilde"}

\* str.startswith(tuple)
StartsWithAny(s, ps) == \E p \in ps : startswith(s, p)

\* choose_mode that takes every trigger starting with m for a maths trigger
choose_mode_any_m(b, trig) ==
    IF b.kind = "None" THEN None
    ELSE IF b.kind = "list"
    THEN IF startswith(trig, "m") THEN Str("maths") ELSE Str("text")
    ELSE IF count(b.val, "\\$") >= 2 THEN Str("text")
    ELSE Str("any")

choose_mode(b, trig) ==
    IF b.kind = "None" THEN None
    ELSE IF b.kind = "list"
    THEN IF startswith(trig, "mx") THEN Str("maths") ELSE Str("text")
    ELSE LET t == b.val IN
         IF count(t, "\\$") >= 2 THEN Str("text")
         ELSE IF startswith(trig, "w") /\ ~startswith(t, "\\") THEN Str("text")
         ELSE IF startswith(trig, "w") /\ startswith(t, "\\") THEN Str("maths")
         ELSE IF startswith(trig, "o") /\ startswith(t, "(") THEN Str("maths")
         ELSE IF startswith(trig, "x") THEN Str("maths")
         ELSE IF \E x \in {"_", "^", "\\frac"} : contains(t, x) THEN Str("maths")
         ELSE IF StartsWithAny(t, {"\\textstyle", "\\text{}"}) THEN Str("maths")
         ELSE IF StartsWithAny(t, TEXT_START) THEN Str("text")
         ELSE IF StartsWithAny(t, MATHS_START) THEN Str("maths")
         ELSE Str("any")

-----------------------------------------------------------------------------
(* Reading the .ini file: a file object is the list of its lines and the   *)
(* number of lines already read.                                           *)

StringLit == "STRING=\""
MacroLit == "  MACRO=\"["

\* TRIGGER = ^STRING="(\S*)  "$
TRIGGER(s) ==
    IF ~startswith(s, StringLit) THEN None
    ELSE LET a == Len(StringLit) IN
         Greedy({ [groups |-> <<SubSeq(s, a + 1, a + k)>>] :
                  k \in { j \in 0..(Len(s) - a) :
                            /\ HasAt(s, a + j + 1, "  \"")
                            /\ AtEnd(s, a + j + 4)
                            /\ NoWhitespace(SubSeq(s, a + 1, a + j)) } })

\* MACRO = ^  MACRO="\[(.*)\]"$
MACRO(s) ==
    IF ~startswith(s, MacroLit) THEN None
    ELSE LET a == Len(MacroLit) IN
         Greedy({ [groups |-> <<SubSeq(s, a + 1, a + k)>>] :
                  k \in { j \in 0..(Len(s) - a) :
                            /\ HasAt(s, a + j + 1, "]\"")
                            /\ AtEnd(s, a + j + 3)
                            /\ NoNewline(SubSeq(s, a + 1, a + j)) } })

\* file.readline() after c lines were read: the next line, '' at end of file
readline(file, c) == IF c < Len(file) THEN file[c + 1] ELSE ""
\* lines read after n more calls of readline
advance(file, c, n) == Min({Len(file), c + n})

\* next_ini_line with TRIGGER or MACRO: the match of the line read, or None
next_ini_line(file, c, check) ==
    LET line == readline(file, c) IN
    IF line = "" THEN None
    ELSE IF check = "TRIGGER" THEN TRIGGER(line) ELSE MACRO(line)

get_ini_trigger(file, c) ==
    LET line_match == next_ini_line(file, c, "TRIGGER") IN
    IF line_match = None THEN None ELSE Str(line_match.groups[1])

\* two lines are read and dropped, the third is matched
get_ini_macro(file, c) ==
    LET line_match == next_ini_line(file, advance(file, c, 2), "MACRO") IN
    IF line_match = None THEN None ELSE Str(line_match.groups[1])

Snippet(prefix, b, mode, description) ==
    [kind |-> "dict", prefix |-> prefix, body |-> b, mode |-> mode,
     description |-> description]

\* the end of next_ini_entry: mode, description and the dict returned
Described(trig, b, descr, after) ==
    IF descr.kind = "raise" THEN [ret |-> descr, cursor |-> after]
    ELSE [ret |-> Snippet(trig, b, choose_mode(b, trig).val, descr.val),
          cursor |-> after]

\* next_ini_entry once the body is known (a body, None or an exception)
EntryOf(trig, b, after) ==
    IF b.kind = "raise" \/ b = None THEN [ret |-> b, cursor |-> after]
    ELSE Described(trig, b, make_description(b, trig), after)

\* body = get_macro_template(...); if body is None: body = get_macro_insert(macro)
OrInsert(tb, m) == IF tb = None THEN get_macro_insert(m) ELSE tb

\* next_ini_entry once the two lines are read
EntryFrom(trig, mac, after, dat) ==
    IF trig = None \/ mac = None THEN [ret |-> None, cursor |-> after]
    ELSE EntryOf(trig.val, OrInsert(get_macro_template(mac.val, dat), mac.val), after)

\* next_ini_entry(file, dat_text) with c lines read before the call:
\* [ret |-> the snippet, None or the exception raised, cursor |-> lines read after]
next_ini_entry(file, c, dat) ==
    EntryFrom(get_ini_trigger(file, c), get_ini_macro(file, advance(file, c, 1)),
              advance(file, c, 4), dat)

-----------------------------------------------------------------------------
(* Generated source strings *)

Alphabet == {"a", "$", "\\", "1"}
InsertAlphabet == {"a", "$", "\\"}

RECURSIVE Join(_)
Join(t) == IF t = <<>> THEN "" ELSE Head(t) \o Join(Tail(t))

Texts == {Join(t) : t \in UNION {[1..n -> Alphabet] : n \in 0..MaxTextLen}}

NoBackslash(s) == \A i \in 1..Len(s) : Char(s, i) # "\\"

Triggers == {"ab", "cd", "mxe"}

-----------------------------------------------------------------------------
(* Generated source files *)

TriggerLine(t) == "STRING=\"" \o t \o "  \"\n"
MacroLine(m) == "  MACRO=\"[" \o m \o "]\"\n"
\* the two lines between trigger and macro, which get_ini_macro drops
DroppedLines == <<"  LEADING=\"\"\n", "  FLAGS=\"1\"\n">>

TemplateMacro(id, tail) ==
    "Assign('FasTeX','" \o id
      \o "');Exe('%b\\Macros\\Active Strings\\FasTeX\\FasTeX_Templates.edt');" \o tail
InsertMacro(t, tail) ==
    "BeginGroup;Backspace(3);Ins('" \o t \o "');" \o tail \o "EndGroup;"

\* the blocks a generated .ini file is made of
BlockKinds == {"insert", "template", "absent", "noise", "badtrigger", "badmacro"}
Block(kind) ==
    CASE kind = "insert" ->
           <<TriggerLine("ab")>> \o DroppedLines
             \o <<MacroLine(InsertMacro("a$b", "CharLeft;"))>>
      [] kind = "template" ->
           <<TriggerLine("mxe")>> \o DroppedLines
             \o <<MacroLine(TemplateMacro("TRIG", "LineUp(2);TrackCaret;"))>>
      [] kind = "absent" ->
           <<TriggerLine("cd")>> \o DroppedLines
             \o <<MacroLine(TemplateMacro("NONE", ""))>>
      [] kind = "noise" ->
           <<TriggerLine("no")>> \o DroppedLines \o <<MacroLine("Beep;")>>
      [] kind = "badtrigger" ->
           <<"STRING=\"a b  \"\n">> \o DroppedLines
             \o <<MacroLine(InsertMacro("a", ""))>>
      [] kind = "badmacro" ->
           <<TriggerLine("bm")>> \o DroppedLines \o <<"  MACRO=\"Beep;\"\n">>

RECURSIVE Blocks(_)
Blocks(kinds) == IF kinds = <<>> THEN <<>> ELSE Block(Head(kinds)) \o Blocks(Tail(kinds))

\* what may follow the last whole block: nothing, or a block cut short
CutBlocks == {<<>>, <<TriggerLine("ab")>>, <<TriggerLine("ab")>> \o DroppedLines}

IniFiles ==
    { Blocks(kinds) \o cut :
        kinds \in UNION {[1..n -> BlockKinds] : n \in 0..MaxBlocks}, cut \in CutBlocks }

\* template tables: TRIG whole, and TRIG without its closing line
IniDats ==
    { <<"OTHER\n", "x\n", "-OTHER-\n", "TRIG\n", "%====\n", "a$\n", "b\n", "-TRIG-\n">>,
      <<"OTHER\n", "x\n", "-OTHER-\n", "TRIG\n", "%====\n", "a$\n", "b\n">> }

-----------------------------------------------------------------------------
(* Spec: process_ini, one step for each call of next_ini_entry *)

Init ==
    /\ ini \in IniFiles
    /\ dat_text \in IniDats
    /\ cursor = 0
    /\ snippets = <<>>
    /\ pc = "call"
    /\ cson_file = Unused /\ stack = <<>>
    /\ result = None
    /\ macro = Unused /\ body = None /\ text = Unused /\ trigger = Unused
    /\ describe = None /\ given = Unused

\* next_ini_entry returned a snippet: the loop appends it and goes on
Appended(r) ==
    /\ r.ret.kind = "dict"
    /\ snippets' = Append(snippets, r.ret)
    /\ cursor' = r.cursor

AppendSnippet ==
    /\ pc = "call"
    /\ Appended(next_ini_entry(ini, cursor, dat_text))
    /\ UNCHANGED <<cson_file, stack,
                   ini, dat_text, pc, macro, body, text, trigger, describe, result, given>>

\* next_ini_entry returned None: the loop ends and process_ini returns the list
Ended(r) ==
    /\ r.ret = None
    /\ cursor' = r.cursor

ReturnSnippets ==
    /\ pc = "call"
    /\ Ended(next_ini_entry(ini, cursor, dat_text))
    /\ result' = List(snippets)
    /\ pc' = "returned"
    /\ UNCHANGED <<cson_file, stack,
                   ini, dat_text, snippets, macro, body, text, trigger, describe, given>>

\* next_ini_entry raised: nothing catches it, process_ini raises it
Raised(r) ==
    /\ r.ret.kind = "raise"
    /\ cursor' = r.cursor
    /\ result' = r.ret

RaiseError ==
    /\ pc = "call"
    /\ Raised(next_ini_entry(ini, cursor, dat_text))
    /\ pc' = "raised"
    /\ UNCHANGED <<cson_file, stack,
                   ini, dat_text, snippets, macro, body, text, trigger, describe, given>>

Next == AppendSnippet \/ ReturnSnippets \/ RaiseError

Spec == Init /\ [][Next]_vars

-----------------------------------------------------------------------------
(* SpecMacro: get_macro_matches, get_macro_template and get_macro_insert    *)
(* on one macro.  The macro is assembled from parts, kept in `given`.      *)

DigitStr(n) == Char("0123456789", n + 1)

\* literal inserted texts: all short strings, and some that look like commands
InsertTexts ==
    {Join(t) : t \in UNION {[1..n -> InsertAlphabet] : n \in 0..MaxTextLen}}
      \cup {"$1", "a');CharLeft;", "\\frac{}{*}", "x^{}a"}

InsertHeads == {"BeginGroup;Backspace(3);Ins('",
                "BeginGroup;Backspace(12);Ins(" \o Backtick,
                "BeginGroup;Backspace();Ins('"}

InsertTail(shape, n) ==
    CASE shape = "zero" -> ""
      [] shape = "one" -> "CharLeft;"
      [] shape = "ones" -> "CharLeft(" \o DigitStr(n) \o ");"
      [] shape = "two" -> "CharLeft;CharLeft(" \o DigitStr(n) \o ");"
      [] shape = "other" -> "CharRight;"

TemplateTail(shape, n) ==
    CASE shape = "zero" -> ""
      [] shape = "one" -> "LineUp(" \o DigitStr(n) \o ");TrackCaret;"
      [] shape = "ones" -> "LineUp(" \o DigitStr(n) \o ");TrackCaret;CharLeft;"
      [] shape = "other" -> "LineUp(12);TrackCaret;"

\* shapes with the counts they take
TemplateShapes ==
    { [shape |-> x.shape, num |-> x.num] :
        x \in { y \in [shape : {"zero", "one", "ones", "other"}, num : 0..MaxNum] :
                  y.shape \in {"one", "ones"} \/ y.num = 0 } }
InsertShapes ==
    { [shape |-> x.shape, num |-> x.num] :
        x \in { y \in [shape : {"zero", "one", "ones", "two", "other"}, num : 0..MaxNum] :
                  y.shape \in {"ones", "two"} \/ y.num = 0 } }

\* source lines of a template body
LineTexts == {"", "b$", "c\\"}
Bodies == UNION {[1..n -> LineTexts] : n \in 0..MaxBodyLines}

RECURSIVE WithNewlines(_)
WithNewlines(lines) ==
    IF lines = <<>> THEN <<>> ELSE <<Head(lines) \o "\n">> \o WithNewlines(Tail(lines))

\* the template table: another template, then TRIG, whole or lacking a line
Table(lines, table) ==
    <<"OTHER\n", "x\n", "-OTHER-\n">>
      \o (IF table = "noopen" THEN <<>> ELSE <<"TRIG\n">>)
      \o WithNewlines(lines)
      \o (IF table = "noclose" THEN <<>> ELSE <<"-TRIG-\n">>)

GivenTemplates ==
    { [family |-> "template", shape |-> x.shape, num |-> x.num, lines |-> l,
       table |-> t] :
        x \in TemplateShapes, l \in Bodies, t \in {"whole", "noopen", "noclose"} }

GivenInserts ==
    { [family |-> "insert", shape |-> x.shape, num |-> x.num, text |-> t, head |-> h] :
        x \in InsertShapes, t \in InsertTexts, h \in InsertHeads }

Assemble(g) ==
    IF g.family = "template"
    THEN TemplateMacro("TRIG", TemplateTail(g.shape, g.num))
    ELSE g.head \o g.text \o "');" \o InsertTail(g.shape, g.num) \o "EndGroup;"

InitMacro ==
    /\ given \in GivenTemplates \cup GivenInserts
    /\ macro = Assemble(given)
    /\ dat_text = IF given.family = "template" THEN Table(given.lines, given.table)
                  ELSE Table(<<"a">>, "whole")
    /\ pc = "macro"
    /\ cson_file = Unused /\ stack = <<>>
    /\ body = None
    /\ result = None
    /\ ini = Unused /\ cursor = 0 /\ snippets = Unused
    /\ text = Unused /\ trigger = Unused /\ describe = None

GetMacroMatches ==
    /\ pc = "macro"
    /\ result' = [templates |-> get_macro_matches(macro, TEMPLATES),
                  inserts |-> get_macro_matches(macro, INSERTS)]
    /\ pc' = "matched"
    /\ UNCHANGED <<cson_file, stack,
                   ini, dat_text, cursor, snippets, macro, body, text, trigger,
                   describe, given>>

GetMacroTemplate ==
    /\ pc = "macro"
    /\ body' = get_macro_template(macro, dat_text)
    /\ pc' = "template"
    /\ UNCHANGED <<cson_file, stack,
                   ini, dat_text, cursor, snippets, macro, text, trigger, describe,
                   result, given>>

GetMacroInsert ==
    /\ pc = "macro"
    /\ body' = get_macro_insert(macro)
    /\ pc' = "insert"
    /\ UNCHANGED <<cson_file, stack,
                   ini, dat_text, cursor, snippets, macro, text, trigger, describe,
                   result, given>>

NextMacro == GetMacroMatches \/ GetMacroTemplate \/ GetMacroInsert

SpecMacro == InitMacro /\ [][NextMacro]_vars

-----------------------------------------------------------------------------
(* SpecDescribe: escape_body then make_description on one source string *)

InitDescribe ==
    /\ text \in Texts
    /\ trigger \in Triggers
    /\ pc = "source"
    /\ cson_file = Unused /\ stack = <<>>
    /\ body = None
    /\ describe = None
    /\ ini = Unused /\ dat_text = Unused /\ cursor = 0 /\ snippets = Unused
    /\ macro = Unused /\ result = None /\ given = Unused

EscapeBody ==
    /\ pc = "source"
    /\ body' = escape_body(Str(text))
    /\ pc' = "escaped"
    /\ UNCHANGED <<cson_file, stack,
                   ini, dat_text, cursor, snippets, macro, text, trigger, describe, result,
                   given>>

MakeDescription ==
    /\ pc = "escaped"
    /\ describe' = make_description(body, trigger)
    /\ pc' = "described"
    /\ UNCHANGED <<cson_file, stack,
                   ini, dat_text, cursor, snippets, macro, text, trigger, body, result,
                   given>>

NextDescribe == EscapeBody \/ MakeDescription

SpecDescribe == InitDescribe /\ [][NextDescribe]_vars

\* C10: for every single-line string s without a backslash,
\* make_description(escape_body(s), trigger) equals s: unescaping during
\* description generation restores what escape_body escaped.
C10_RoundTrip ==
    (pc = "described" /\ NoBackslash(text)) => describe = Str(text)

\* a string with a literal "$1" has been escaped and described back
C10_Witness ==
    /\ pc = "described"
    /\ NoBackslash(text)
    /\ contains(text, "$1")
    /\ body # Str(text)
    /\ describe = Str(text)

-----------------------------------------------------------------------------
(* make_description on a multi-line body (SpecDescribeLines) *)

\* lines of an escaped multi-line body: empty, dividers, text, comment
DescribeLines == {"", "%====", "%----a", "ab", "a\\$$1", "%a"}
DescribeBodies == UNION {[1..n -> DescribeLines] : n \in 0..MaxBodyLines}

InitDescribeLines ==
    /\ body \in {List(l) : l \in DescribeBodies}
    /\ trigger \in Triggers
    /\ pc = "lines"
    /\ cson_file = Unused /\ stack = <<>>
    /\ describe = None
    /\ text = Unused
    /\ ini = Unused /\ dat_text = Unused /\ cursor = 0 /\ snippets = Unused
    /\ macro = Unused /\ result = None /\ given = Unused

MakeDescriptionLines ==
    /\ pc = "lines"
    /\ describe' = make_description(body, trigger)
    /\ pc' = "described"
    /\ UNCHANGED <<cson_file, stack,
                   ini, dat_text, cursor, snippets, macro, text, trigger, body, result,
                   given>>

NextDescribeLines == MakeDescriptionLines

SpecDescribeLines == InitDescribeLines /\ [][NextDescribeLines]_vars

IsDivider(line) == startswith(line, "%====") \/ startswith(line, "%----")
\* the lines that are neither empty nor a divider
TextLines(lines) == { i \in 1..Len(lines) : lines[i] # "" /\ ~IsDivider(lines[i]) }
\* a line with its tab-stop markers removed and its dollars unescaped
Normalized(line) == replace(TabStopSubFrom(line, 1, Len(line)), "\\$", "$")

\* C11: for a multi-line body with a line that is neither empty nor a divider,
\* make_description returns the description of the first such line (tab-stop
\* markers removed, dollars unescaped), skipping the empty lines and the
\* dividers before it.  (The description may have lost leading comment
\* characters "%" and "&".)
C11_FirstTextLineDescribed ==
    (pc = "described" /\ body.kind = "list" /\ TextLines(body.val) # {})
        => describe \in { Str(Normalized(body.val[Min(TextLines(body.val))])),
                           Str(lstrip(Normalized(body.val[Min(TextLines(body.val))]),
                                      {"%", "&"})) }

-----------------------------------------------------------------------------
(* Properties of process_ini (Spec).  A block is four lines of the file;   *)
(* block i starts after 4 * (i - 1) lines.                                 *)

Range(f) == {f[i] : i \in DOMAIN f}

NumBlocks == (Len(ini) + 3) \div 4
BlockTrigger(i) == get_ini_trigger(ini, 4 * (i - 1))
BlockMacro(i) == get_ini_macro(ini, 4 * (i - 1) + 1)
BlockEntry(i) == next_ini_entry(ini, 4 * (i - 1), dat_text).ret

\* the trigger line and the macro line of block i are there and match
LinesRecognized(i) == BlockTrigger(i) # None /\ BlockMacro(i) # None
\* the macro text of block i matches a template or an insertion pattern
Shaped(i) ==
    \E p \in Range(TEMPLATES) \cup Range(INSERTS) :
        PatternMatch(p, BlockMacro(i).val) # None
\* the template-shaped match of the macro of block i, or None
TemplateRef(i) == get_macro_matches(BlockMacro(i).val, TEMPLATES).match
\* the opening line or the closing line of the identifier is not in the table
AbsentFromTable(id) ==
    (id \o "\n") \notin Range(dat_text) \/ ("-" \o id \o "-\n") \notin Range(dat_text)
RefersToAbsent(i) ==
    /\ LinesRecognized(i)
    /\ TemplateRef(i) # None
    /\ AbsentFromTable(TemplateRef(i).groups[1])
\* every block before block i gave a record
ReadUpTo(i) == \A j \in 1..(i - 1) : BlockEntry(j).kind = "dict"
\* the first block whose trigger line or macro line is missing or not recognizable
LineStop == Min({ i \in 1..(NumBlocks + 1) : ~LinesRecognized(i) })

\* C1: when the reader comes to a template-shaped macro whose identifier has
\* no opening line or no closing line in the template table, process_ini ends
\* with the ValueError of get_template: it returns nothing, neither a record
\* for the entry nor the list of the records read before it.
C1_LookupErrorPropagates ==
    \A i \in 1..NumBlocks :
        (pc # "call" /\ ReadUpTo(i) /\ RefersToAbsent(i))
            => (pc = "raised" /\ result = Raise("ValueError"))

\* records were read, then a reference to an absent template raised
C1_Witness ==
    /\ pc = "raised"
    /\ result = Raise("ValueError")
    /\ Len(snippets) >= 1
    /\ \E i \in 2..NumBlocks : ReadUpTo(i) /\ RefersToAbsent(i)

RECURSIVE ShapedTriggers(_, _)
ShapedTriggers(i, stop) ==
    IF i >= stop THEN <<>>
    ELSE (IF Shaped(i) THEN <<BlockTrigger(i).val>> ELSE <<>>)
           \o ShapedTriggers(i + 1, stop)

Prefixes(snips) == [k \in 1..Len(snips) |-> snips[k].prefix]

\* C2: process_ini returns one record per block, in source order, for the
\* blocks before the first stopping point, the stopping point being the end
\* of the file or the first block whose trigger line or macro line is not
\* recognizable.  (Stated for the blocks whose macro text matches a pattern:
\* the others have no record to give.)
C2_RecordPerBlockBeforeStop ==
    pc = "returned" => Prefixes(result.val) = ShapedTriggers(1, LineStop)

\* C3: an entry whose macro text matches no pattern is left out silently: no
\* error is raised for it, and the record of every other recognizable entry,
\* before it and after it, is in the result.
C3_NoiseEntryOnlyExcluded ==
    \A n \in 1..NumBlocks :
        ( /\ pc # "call"
          /\ n < LineStop
          /\ ~Shaped(n)
          /\ \A j \in 1..(LineStop - 1) : BlockEntry(j).kind # "raise" )
        => ( /\ pc = "returned"
             /\ \A j \in 1..(LineStop - 1) :
                    Shaped(j) => BlockEntry(j) \in Range(result.val) )

-----------------------------------------------------------------------------
(* Properties of the macro functions (SpecMacro) *)

GoodHead == given.head # "BeginGroup;Backspace();Ins('"
Matching(patterns) ==
    { i \in 1..Len(patterns) : PatternMatch(patterns[i], macro) # None }
FirstOf(patterns) ==
    IF Matching(patterns) = {} THEN [match |-> None, index |-> 0]
    ELSE [match |-> PatternMatch(patterns[Min(Matching(patterns))], macro),
          index |-> Min(Matching(patterns)) - 1]

\* C4: get_macro_matches returns the first pattern of the list that matches,
\* with its index, or no match; and within TEMPLATES and within INSERTS no
\* macro is matched by two patterns, so the index does not depend on the
\* order of the trials.
C4_FirstAndOnlyMatch ==
    pc = "matched" =>
        /\ result.templates = FirstOf(TEMPLATES)
        /\ result.inserts = FirstOf(INSERTS)
        /\ Cardinality(Matching(TEMPLATES)) <= 1
        /\ Cardinality(Matching(INSERTS)) <= 1

\* an inserted text that itself looks like the end of a simpler macro
C4_Witness ==
    /\ pc = "matched"
    /\ given.family = "insert"
    /\ contains(given.text, "');CharLeft;")
    /\ result.inserts.index = 3
    /\ result.inserts.match.groups = <<given.text, DigitStr(given.num)>>

\* the escaped lines with "$1" appended to line number at
StopAppended(lines, at) ==
    [i \in 1..Len(lines) |->
        IF i = at THEN escape_str(lines[i]) \o "$1" ELSE escape_str(lines[i])]

\* C5: for LineUp(k);TrackCaret; and a template body of n lines, 1 <= k <= n,
\* get_macro_template returns the escaped lines with "$1" appended to the k-th
\* line counted from the last one; every other line is its escaped source line.
C5_StopOnKthLineFromEnd ==
    ( /\ pc = "template"
      /\ given.family = "template"
      /\ given.shape = "one"
      /\ given.table = "whole"
      /\ given.num >= 1
      /\ given.num <= Len(given.lines) )
    => body = List(StopAppended(given.lines, Len(given.lines) - given.num + 1))

\* LineUp(2) on a body of three lines: the stop is on the second line
C5_Witness ==
    /\ pc = "template"
    /\ given.family = "template"
    /\ given.shape = "one"
    /\ given.table = "whole"
    /\ given.num = 2
    /\ Len(given.lines) = 3
    /\ given.lines[2] = "b$"
    /\ body.kind = "list"
    /\ body.val[2] = "b\\$$1"

\* C6: for the CharLeft; form, the body is the escaped text with one "$1"
\* standing immediately before the final character of the literal text.
C6_StopBeforeFinalCharacter ==
    ( /\ pc = "insert"
      /\ given.family = "insert"
      /\ given.shape = "one"
      /\ GoodHead
      /\ Len(given.text) >= 1 )
    => body = Str(escape_str(SliceToNeg(given.text, 1)) \o "$1"
                    \o escape_str(SliceFromNeg(given.text, 1)))

\* the last n characters of the text, and what stands before them
LastChars(t, n) == SubSeq(t, Len(t) - n + 1, Len(t))
ButLastChars(t, n) == SubSeq(t, 1, Len(t) - n)

\* C7: for the CharLeft(n); form, "$1" is spliced so that exactly n characters
\* of the literal text, as written in the source, follow the marker; n = 0
\* puts the marker at the very end.
C7_NCharactersFollowStop ==
    ( /\ pc = "insert"
      /\ given.family = "insert"
      /\ given.shape = "ones"
      /\ GoodHead
      /\ given.num <= Len(given.text) )
    => body = Str(escape_str(ButLastChars(given.text, given.num)) \o "$1"
                    \o escape_str(LastChars(given.text, given.num)))

\* the body without its tab-stop markers
MarkersDeleted(b) == TabStopSubFrom(b, 1, Len(b))

\* C8 as claimed: for CharLeft;CharLeft(n); the body with its "$1" and "$2"
\* markers deleted is the escaped text shortened by two characters.  (Stated
\* for n >= 1 and texts of two characters or more, where the two markers
\* do not run into each other.)
C8_TwoCharactersRemoved ==
    ( /\ pc = "insert"
      /\ given.family = "insert"
      /\ given.shape = "two"
      /\ GoodHead
      /\ given.num >= 1
      /\ Len(escape_str(given.text)) >= 2 )
    => MarkersDeleted(body.val) = SliceToNeg(escape_str(given.text), 2)

\* the escaped text with "$1" put before its last n + 1 characters (at the
\* start when it is shorter) and its next-to-last character replaced by "$2"
BulletReplaced(e, n) ==
    SubSeq(e, 1, Max({0, Len(e) - (n + 1)})) \o "$1"
      \o SubSeq(e, Max({0, Len(e) - (n + 1)}) + 1, Len(e) - 2) \o "$2"
      \o SubSeq(e, Len(e), Len(e))

\* C8 as amended: for CharLeft;CharLeft(n); the second-tab-stop splice removes
\* one character, not two: the body is always three characters longer than the
\* escaped text (two markers put in, one character taken out), and for n >= 1
\* and a text of at least two characters once escaped, the character taken
\* out is the next-to-last of the escaped text, with "$2" in its place.
C8_OneCharacterRemoved ==
    ( /\ pc = "insert"
      /\ given.family = "insert"
      /\ given.shape = "two"
      /\ GoodHead )
    => /\ Len(body.val) = Len(escape_str(given.text)) + 3
       /\ (given.num >= 1 /\ Len(escape_str(given.text)) >= 2)
            => body = Str(BulletReplaced(escape_str(given.text), given.num))

\* \frac{}{*} with CharLeft;CharLeft(3); gives \frac{$1}{$2}
C8_Witness ==
    /\ pc = "insert"
    /\ given.family = "insert"
    /\ given.shape = "two"
    /\ GoodHead
    /\ given.num = 3
    /\ given.text = "\\frac{}{*}"
    /\ body = Str("\\frac{$1}{$2}")

\* the tab-stop markers the importer synthesizes for a shape
Synthesized(shape) ==
    CASE shape = "zero" -> <<>>
      [] shape = "one" -> <<"$1">>
      [] shape = "ones" -> <<"$1">>
      [] shape = "two" -> <<"$1", "$2">>

RECURSIVE AllTabStops(_)
AllTabStops(lines) ==
    IF lines = <<>> THEN <<>> ELSE TabStops(Head(lines)) \o AllTabStops(Tail(lines))

\* C9: in every body the importer produces, the escape-free tab-stop markers
\* (the TAB_STOP matches) are exactly the synthesized ones: none for a
\* zero-parameter pattern, "$1" for a one-parameter pattern, "$1" and "$2" for
\* the two-parameter pattern.
C9_MarkersAreTheSynthesizedOnes ==
    /\ (pc = "insert" /\ body.kind = "str")
         => TabStops(body.val) = Synthesized(given.shape)
    /\ (pc = "template" /\ body.kind = "list")
         => AllTabStops(body.val) = Synthesized(given.shape)

-----------------------------------------------------------------------------
(* The converters of src/readwrite/write_snippets.py.  Its TAB_STOP is      *)
(* (?<!\\)\$(\d): the same matches as the importer's, with the digit as    *)
(* group 1.                                                                *)

\* str(n) for the numbers a tab stop can have
IntStr(n) == IF n < 10 THEN Char("0123456789", n + 1)
             ELSE "1" \o Char("0123456789", n - 9)

\* sep.join(lines)
RECURSIVE JoinWith(_, _)
JoinWith(sep, lines) ==
    IF lines = <<>> THEN ""
    ELSE IF Len(lines) = 1 THEN lines[1]
    ELSE lines[1] \o sep \o JoinWith(sep, Tail(lines))

\* max((int(num) for num in TAB_STOP.findall(line)), default=0)
CountTabsLine(line) ==
    Max({0} \cup {DigitVal(Char(m, 2)) : m \in {TabStops(line)[k] : k \in 1..Len(TabStops(line))}})

_count_tabs(b) ==
    IF b.kind = "list"
    THEN Max({0} \cup {CountTabsLine(b.val[k]) : k \in 1..Len(b.val)})
    ELSE CountTabsLine(b.val)

_body_append(b, addendum) ==
    IF b.kind = "list" THEN List(Append(b.val, addendum)) ELSE Str(b.val \o addendum)

_body_prepend(b, addendum) ==
    IF b.kind = "list" THEN List(<<addendum>> \o b.val) ELSE Str(addendum \o b.val)

\* the pattern [^\\]\${maxtab} at position i: any character but a backslash,
\* a dollar, the digits of maxtab
MaxTabAt(s, i, maxtab) ==
    /\ i + 1 + Len(IntStr(maxtab)) <= Len(s)
    /\ Char(s, i) # "\\"
    /\ Char(s, i + 1) = "$"
    /\ HasAt(s, i + 2, IntStr(maxtab))

\* re.sub(fr'[^\\]\${maxtab}', '$0', s), scanning from position i
RECURSIVE MaxTabSubFrom(_, _, _)
MaxTabSubFrom(s, i, maxtab) ==
    IF i > Len(s) THEN ""
    ELSE IF MaxTabAt(s, i, maxtab)
         THEN "$0" \o MaxTabSubFrom(s, i + 2 + Len(IntStr(maxtab)), maxtab)
    ELSE Char(s, i) \o MaxTabSubFrom(s, i + 1, maxtab)

ConvertLineVsc(line, endtab, maxtab) ==
    IF endtab \/ maxtab = 0 THEN line ELSE MaxTabSubFrom(line, 1, maxtab)

_convert_body_vsc(b, endtab, maxtab) ==
    IF b.kind = "list"
    THEN List([k \in 1..Len(b.val) |-> ConvertLineVsc(b.val[k], endtab, maxtab)])
    ELSE Str(ConvertLineVsc(b.val, endtab, maxtab))

\* maxtab = 0; if not endtab: maxtab = _count_tabs(snippet['body'])
MaxTabOf(snippet, endtab) == IF endtab THEN 0 ELSE _count_tabs(snippet.body)

\* convert_one_vsc that rewrites the highest tab stop whatever endtab says
convert_one_vsc_always_final(snippet, prefix, suffix, endtab) ==
    [kind |-> "dict",
     prefix |-> prefix \o snippet.prefix \o suffix,
     body |-> _convert_body_vsc(snippet.body, FALSE, _count_tabs(snippet.body)),
     description |-> snippet.description]

convert_one_vsc(snippet, prefix, suffix, endtab) ==
    [kind |-> "dict",
     prefix |-> prefix \o snippet.prefix \o suffix,
     body |-> _convert_body_vsc(snippet.body, endtab, MaxTabOf(snippet, endtab)),
     description |-> snippet.description]

\* body.replace('\\', '\\\\\\\\') then body.replace('"', '\\"')
\* _help_body_atom that escapes nothing
_help_body_atom_plain(line) == line

_help_body_atom(line) == replace(replace(line, "\\", "\\\\\\\\"), "\"", "\\\"")

\* if endtab and maxtab: body = _body_append(body, f'${maxtab + 1}')
AtomEndTab(b, endtab, maxtab) ==
    IF endtab /\ maxtab # 0 THEN _body_append(b, "$" \o IntStr(maxtab + 1)) ELSE b

\* AtomJoin that joins with the two characters backslash-n
AtomJoin_literal(b) ==
    IF b.kind = "list"
    THEN Str(JoinWith("\\n", [k \in 1..Len(b.val) |-> _help_body_atom(b.val[k])]))
    ELSE Str(_help_body_atom(b.val))

\* the lines joined with a line break, each through _help_body_atom
AtomJoin(b) ==
    IF b.kind = "list"
    THEN Str(JoinWith("\n", [k \in 1..Len(b.val) |-> _help_body_atom(b.val[k])]))
    ELSE Str(_help_body_atom(b.val))

_convert_body_atom(b, endtab, maxtab) == AtomJoin(AtomEndTab(b, endtab, maxtab))

convert_one_atom(snippet, prefix, suffix, endtab) ==
    [kind |-> "dict",
     prefix |-> prefix \o snippet.prefix \o suffix,
     body |-> _convert_body_atom(snippet.body, endtab, MaxTabOf(snippet, endtab))]

\* src/code/write_snippets.py: the lines joined with r'\n', nothing escaped
CodeAtomJoin(b) == IF b.kind = "list" THEN Str(JoinWith("\\n", b.val)) ELSE b

convert_body_atom(b, endtab, maxtab) == CodeAtomJoin(AtomEndTab(b, endtab, maxtab))

convert_snippet_atom(snippet, prefix, suffix, endtab) ==
    [kind |-> "dict",
     prefix |-> prefix \o snippet.prefix \o suffix,
     body |-> convert_body_atom(snippet.body, endtab, MaxTabOf(snippet, endtab))]

\* TAB_STOP.sub('$$\\1', s), scanning from position i
RECURSIVE TabStopDoubleFrom(_, _)
TabStopDoubleFrom(s, i) ==
    IF i > Len(s) THEN ""
    ELSE IF TAB_STOP(s, i) THEN "$$" \o Char(s, i + 1) \o TabStopDoubleFrom(s, i + 2)
    ELSE Char(s, i) \o TabStopDoubleFrom(s, i + 1)

\* if not endtab or maxtab: body = re.sub(fr'[^\\]\${maxtab}', '$0', body)
LiveFinalStop(line, endtab, maxtab) ==
    IF ~endtab \/ maxtab # 0 THEN MaxTabSubFrom(line, 1, maxtab) ELSE line

_help_body_live(line, endtab, maxtab) ==
    replace(replace(TabStopDoubleFrom(LiveFinalStop(line, endtab, maxtab), 1),
                    "\\$1", "$ 1"),
            "\\$", "$")

_convert_body_live(b, endtab, maxtab) ==
    IF b.kind = "list"
    THEN Str(JoinWith("\\n",
                      <<"$1">> \o [k \in 1..Len(b.val) |->
                                      _help_body_live(b.val[k], endtab, maxtab)]))
    ELSE Str("$1" \o _help_body_live(b.val, endtab, maxtab))

\* r'(^|[^\\])'
LiveAnchor == "(^|[^\\\\])"

convert_one_live(snippet, prefix, suffix, endtab) ==
    [kind |-> "dict",
     prefix |-> LiveAnchor \o prefix \o snippet.prefix \o suffix,
     body |-> _convert_body_live(snippet.body, endtab, MaxTabOf(snippet, endtab)),
     mode |-> snippet.mode,
     triggerWhenComplete |-> TRUE,
     description |-> snippet.description,
     priority |-> Len(snippet.prefix)]

-----------------------------------------------------------------------------
(* One record through each converter (SpecConvert) *)

\* pieces of a body line: text, tab stops, an escaped dollar, a backslash,
\* a quote
BodyTokens == {"a", "$1", "$2", "\\$", "\\", "\""}
BodyTexts == {Join(t) : t \in UNION {[1..n -> BodyTokens] : n \in 0..MaxTextLen}}
\* lines of a multi-line body
BodyLines == {"", "$2a", "b$1", "a\\$"}
BodyLists == UNION {[1..n -> BodyLines] : n \in 0..MaxBodyLines}
ConvertBodies == {Str(t) : t \in BodyTexts} \cup {List(l) : l \in BodyLists}

\* prefix and suffix given to the converter
Decorations == {<<"", "">>, <<";", "  ">>}

InitConvert ==
    /\ given \in [snippet : {Snippet("ab", b, "any", "d") : b \in ConvertBodies},
                  decoration : Decorations,
                  endtab : BOOLEAN]
    /\ pc = "record"
    /\ cson_file = Unused /\ stack = <<>>
    /\ result = None
    /\ body = None
    /\ text = Unused /\ trigger = Unused /\ describe = None
    /\ ini = Unused /\ dat_text = Unused /\ cursor = 0 /\ snippets = Unused
    /\ macro = Unused

ConvertOneVsc ==
    /\ pc = "record"
    /\ result' = convert_one_vsc(given.snippet, given.decoration[1],
                                 given.decoration[2], given.endtab)
    /\ body' = result'.body
    /\ pc' = "vsc"
    /\ UNCHANGED <<cson_file, stack,
                   ini, dat_text, cursor, snippets, macro, text, trigger, describe, given>>

\* the converter run again on its own output
ConvertAgainVsc ==
    /\ pc = "vsc"
    /\ body' = convert_one_vsc(result, given.decoration[1],
                               given.decoration[2], given.endtab).body
    /\ pc' = "vsc_again"
    /\ UNCHANGED <<cson_file, stack,
                   ini, dat_text, cursor, snippets, macro, text, trigger, describe, given,
                   result>>

ConvertOneAtom ==
    /\ pc = "record"
    /\ result' = convert_one_atom(given.snippet, given.decoration[1],
                                  given.decoration[2], given.endtab)
    /\ body' = result'.body
    /\ pc' = "atom"
    /\ UNCHANGED <<cson_file, stack,
                   ini, dat_text, cursor, snippets, macro, text, trigger, describe, given>>

ConvertOneLive ==
    /\ pc = "record"
    /\ result' = convert_one_live(given.snippet, given.decoration[1],
                                  given.decoration[2], given.endtab)
    /\ body' = result'.body
    /\ pc' = "live"
    /\ UNCHANGED <<cson_file, stack,
                   ini, dat_text, cursor, snippets, macro, text, trigger, describe, given>>

\* the Atom converter of src/code/write_snippets.py
ConvertSnippetAtom ==
    /\ pc = "record"
    /\ result' = convert_snippet_atom(given.snippet, given.decoration[1],
                                      given.decoration[2], given.endtab)
    /\ body' = result'.body
    /\ pc' = "atom_code"
    /\ UNCHANGED <<cson_file, stack,
                   ini, dat_text, cursor, snippets, macro, text, trigger, describe, given>>

NextConvert ==
    \/ ConvertOneVsc
    \/ ConvertAgainVsc
    \/ ConvertOneAtom
    \/ ConvertSnippetAtom
    \/ ConvertOneLive

SpecConvert == InitConvert /\ [][NextConvert]_vars

-----------------------------------------------------------------------------
(* Properties of the converters (SpecConvert) *)

\* a line with every escape-free "$n" replaced by "$0", nothing else changed
RECURSIVE FinalStopFrom(_, _, _)
FinalStopFrom(line, i, n) ==
    IF i > Len(line) THEN ""
    ELSE IF TAB_STOP(line, i) /\ Char(line, i + 1) = IntStr(n)
         THEN "$0" \o FinalStopFrom(line, i + 2, n)
    ELSE Char(line, i) \o FinalStopFrom(line, i + 1, n)

\* the body with its highest-numbered tab stop turned into "$0"
FinalStopBody(b) ==
    IF _count_tabs(b) = 0 THEN b
    ELSE IF b.kind = "list"
         THEN List([k \in 1..Len(b.val) |-> FinalStopFrom(b.val[k], 1, _count_tabs(b))])
    ELSE Str(FinalStopFrom(b.val, 1, _count_tabs(b)))

Decorated == given.decoration[1] \o given.snippet.prefix \o given.decoration[2]

\* C12: with endtab false, convert_one_vsc returns the body in which every
\* escape-free occurrence of the highest-numbered tab stop "$n" is replaced by
\* "$0" and every other character is unchanged, wherever the marker stands;
\* with endtab true the body is unchanged; the trigger is always
\* prefix + trigger + suffix.
C12_HighestStopBecomesFinal ==
    pc = "vsc" =>
        /\ result.prefix = Decorated
        /\ given.endtab => result.body = given.snippet.body
        /\ ~given.endtab => result.body = FinalStopBody(given.snippet.body)

\* C13: convert_one_vsc with endtab true, applied to a record and then to its
\* own output, gives the same body the second time as the first.
C13_SecondPassSameBody ==
    (pc = "vsc_again" /\ given.endtab) => body = result.body

\* a body with two tab stops has gone through the converter twice
C13_Witness ==
    /\ pc = "vsc_again"
    /\ given.endtab
    /\ given.snippet.body = Str("a$1$2")
    /\ result.body = Str("a$1$2")
    /\ body = Str("a$1$2")

\* the lines of a body, one line for a single string
LinesOf(b) == IF b.kind = "list" THEN b.val ELSE <<b.val>>
\* no line of the body has an escape-free tab-stop marker
Unmarked(b) == \A k \in 1..Len(LinesOf(b)) : TabStops(LinesOf(b)[k]) = <<>>

\* C14 as claimed: for a body without escape-free tab-stop markers, every
\* converter, for either endtab, returns the body unmodified apart from its
\* static decoration (the live converter's first tab stop "$1", the joining of
\* the lines): backslashes, quotes and escaped dollars are unchanged.
C14_UnmarkedBodyUnmodified ==
    (pc \in {"vsc", "atom", "live"} /\ Unmarked(given.snippet.body)) =>
        /\ pc = "vsc" => body = given.snippet.body
        /\ pc = "atom" => body = Str(JoinWith("\n", LinesOf(given.snippet.body)))
        /\ pc = "live" =>
              body = Str(JoinWith("\\n", LinesOf(_body_prepend(given.snippet.body, "$1"))))

\* a line as the Atom converter writes it: four backslashes for each
\* backslash, a backslash before each double quote
RECURSIVE AtomEscapedFrom(_, _)
AtomEscapedFrom(line, i) ==
    IF i > Len(line) THEN ""
    ELSE IF Char(line, i) = "\\" THEN "\\\\\\\\" \o AtomEscapedFrom(line, i + 1)
    ELSE IF Char(line, i) = "\"" THEN "\\\"" \o AtomEscapedFrom(line, i + 1)
    ELSE Char(line, i) \o AtomEscapedFrom(line, i + 1)

\* a line as the live converter writes it when it has no tab stop: first
\* each backslash-dollar-1 becomes dollar-blank-1, then each backslash-dollar
\* that is left becomes a dollar
LiveUnescaped(line) == replace(replace(line, "\\$1", "$ 1"), "\\$", "$")

\* C14 as amended: for a body without escape-free tab-stop markers and either
\* endtab, convert_one_vsc returns the body unchanged; convert_one_atom returns
\* its lines joined by a line break, with every backslash written as four
\* backslashes and every double quote preceded by a backslash; convert_one_live
\* returns "$1" and the lines, joined by backslash-n, in which first every
\* backslash-dollar-1 is turned into dollar-blank-1 and then every remaining
\* backslash-dollar into a dollar.
C14_UnmarkedBodyUpToEscaping ==
    (pc \in {"vsc", "atom", "live"} /\ Unmarked(given.snippet.body)) =>
        /\ pc = "vsc" => body = given.snippet.body
        /\ pc = "atom" =>
              body = Str(JoinWith("\n",
                         [k \in 1..Len(LinesOf(given.snippet.body)) |->
                             AtomEscapedFrom(LinesOf(given.snippet.body)[k], 1)]))
        /\ pc = "live" =>
              body = Str(JoinWith("\\n",
                         LinesOf(_body_prepend(
                            IF given.snippet.body.kind = "list"
                            THEN List([k \in 1..Len(given.snippet.body.val) |->
                                     LiveUnescaped(given.snippet.body.val[k])])
                            ELSE Str(LiveUnescaped(given.snippet.body.val)),
                            "$1"))))

\* a body with a backslash, a quote and an escaped dollar through the Atom
\* converter
C14_Witness ==
    /\ pc = "atom"
    /\ given.snippet.body = Str("\\\"\\$")
    /\ body = Str("\\\\\\\\\\\"\\\\\\\\$")

\* the lines of the input body as the Atom converter of readwrite writes them
AtomEscapedLines ==
    [k \in 1..Len(LinesOf(given.snippet.body)) |->
        AtomEscapedFrom(LinesOf(given.snippet.body)[k], 1)]

\* C15 as claimed: the Atom converter turns a multi-line body into one string
\* by joining its lines with the two characters backslash-n, so the converted
\* body has no real line break.
C15_JoinedByLiteralEscape ==
    /\ (pc = "atom" /\ given.snippet.body.kind = "list")
          => /\ body = Str(JoinWith("\\n", AtomEscapedLines))
             /\ ~contains(body.val, "\n")
    /\ (pc = "atom_code" /\ given.snippet.body.kind = "list")
          => /\ body = Str(JoinWith("\\n", given.snippet.body.val))
             /\ ~contains(body.val, "\n")

\* C15 as amended: convert_body_atom of src/code/write_snippets.py joins the
\* lines with the two characters backslash-n and its result has no real line
\* break; _convert_body_atom of src/readwrite/write_snippets.py joins the
\* (escaped) lines with a real line break, so its result for a body of two
\* lines or more does contain line breaks, one between each two lines.
C15_JoinedByLineBreak ==
    /\ (pc = "atom" /\ given.snippet.body.kind = "list")
          => /\ body = Str(JoinWith("\n", AtomEscapedLines))
             /\ count(body.val, "\n") = Max({0, Len(given.snippet.body.val) - 1})
    /\ (pc = "atom_code" /\ given.snippet.body.kind = "list")
          => /\ body = Str(JoinWith("\\n", given.snippet.body.val))
             /\ ~contains(body.val, "\n")

\* a body of three lines through the Atom converter of readwrite
C15_Witness ==
    /\ pc = "atom"
    /\ given.snippet.body = List(<<"$2a", "a\\$", "b$1">>)
    /\ body = Str("$2a\na\\\\\\\\$\nb$1")

\* C16: with endtab true and a highest tab stop n >= 1, convert_one_atom
\* returns a body ending with the synthesized tab stop "$(n+1)", appended
\* after the last character (as an extra last line for a multi-line body);
\* with endtab false nothing is appended.
C16_FinalStopAppended ==
    pc = "atom" =>
        /\ (given.endtab /\ _count_tabs(given.snippet.body) >= 1)
              => endswith(body.val, "$" \o IntStr(_count_tabs(given.snippet.body) + 1))
        /\ ~given.endtab => body = Str(JoinWith("\n", AtomEscapedLines))

\* a line with the sigil of every escape-free tab stop doubled, except that
\* tab stop number final (0 for none) becomes "$0" with a single sigil
RECURSIVE SigilsDoubledFrom(_, _, _)
SigilsDoubledFrom(line, i, final) ==
    IF i > Len(line) THEN ""
    ELSE IF TAB_STOP(line, i) /\ final # 0 /\ Char(line, i + 1) = IntStr(final)
         THEN "$0" \o SigilsDoubledFrom(line, i + 2, final)
    ELSE IF TAB_STOP(line, i)
         THEN "$$" \o Char(line, i + 1) \o SigilsDoubledFrom(line, i + 2, final)
    ELSE Char(line, i) \o SigilsDoubledFrom(line, i + 1, final)

\* the tab stop that becomes the final one: the highest, when endtab is false
FinalOf(b, endtab) == IF endtab THEN 0 ELSE _count_tabs(b)

\* the lines the live converter should give for the input body
ExpectedLive ==
    [k \in 1..Len(LinesOf(given.snippet.body)) |->
        LiveUnescaped(SigilsDoubledFrom(LinesOf(given.snippet.body)[k], 1,
                                        FinalOf(given.snippet.body, given.endtab)))]

\* C17: the live converter returns "$1" followed by the input body in which
\* the sigil of every escape-free tab stop is doubled, except the final
\* marker "$0" synthesized when endtab is false, which keeps a single sigil;
\* nothing else of a marker is changed.  (Escaped dollars of the text are
\* read as the converter unescapes them.)
C17_SigilsDoubledButFinal ==
    pc = "live" =>
        body = Str(JoinWith("\\n",
                   LinesOf(_body_prepend(
                      IF given.snippet.body.kind = "list"
                      THEN List(ExpectedLive)
                      ELSE Str(ExpectedLive[1]),
                      "$1"))))

-----------------------------------------------------------------------------
(* convert_all_vscode, convert_all_atom, convert_all_live (SpecConvertAll). *)
(* A Python dict with str keys is a function on the set of its keys.       *)

Dict(d) == [kind |-> "dict", val |-> d]
EmptyDict == Dict([k \in {} |-> None])

\* DictSet that keeps the entry a key already has
DictSet_keep_first(d, key, value) ==
    Dict([k \in DOMAIN d.val \cup {key} |-> IF k \in DOMAIN d.val THEN d.val[k] ELSE value])

\* d[key] = value
DictSet(d, key, value) ==
    Dict([k \in DOMAIN d.val \cup {key} |-> IF k = key THEN value ELSE d.val[k]])

\* the records given to convert_all_*: two triggers, three bodies
AllRecords ==
    {Snippet(t, b, "any", "d") :
        t \in {"ab", "cd"}, b \in {Str("a$1"), Str("b"), List(<<"c$1", "d">>)}}
RecordLists == UNION {[1..n -> AllRecords] : n \in 0..MaxBlocks}

InitConvertAll ==
    /\ snippets \in RecordLists
    /\ given \in [target : {"vscode", "atom", "live"},
                  decoration : Decorations,
                  endtab : BOOLEAN]
    /\ cursor = 0
    /\ pc = "for"
    /\ cson_file = Unused /\ stack = <<>>
    /\ result = IF given.target = "live" THEN List(<<>>) ELSE EmptyDict
    /\ body = None
    /\ text = Unused /\ trigger = Unused /\ describe = None
    /\ ini = Unused /\ dat_text = Unused /\ macro = Unused

\* one turn of the loop of convert_all_vscode
ConvertNextVscode ==
    /\ pc = "for"
    /\ given.target = "vscode"
    /\ cursor < Len(snippets)
    /\ result' = DictSet(result, snippets[cursor + 1].prefix,
                         convert_one_vsc(snippets[cursor + 1], given.decoration[1],
                                         given.decoration[2], given.endtab))
    /\ cursor' = cursor + 1
    /\ UNCHANGED <<cson_file, stack,
                   ini, dat_text, snippets, pc, macro, body, text, trigger, describe,
                   given>>

\* one turn of the loop of convert_all_atom
ConvertNextAtom ==
    /\ pc = "for"
    /\ given.target = "atom"
    /\ cursor < Len(snippets)
    /\ result' = DictSet(result, snippets[cursor + 1].prefix,
                         convert_one_atom(snippets[cursor + 1], given.decoration[1],
                                          given.decoration[2], given.endtab))
    /\ cursor' = cursor + 1
    /\ UNCHANGED <<cson_file, stack,
                   ini, dat_text, snippets, pc, macro, body, text, trigger, describe,
                   given>>

\* one turn of the loop of convert_all_live
ConvertNextLive ==
    /\ pc = "for"
    /\ given.target = "live"
    /\ cursor < Len(snippets)
    /\ result' = List(Append(result.val,
                             convert_one_live(snippets[cursor + 1], given.decoration[1],
                                              given.decoration[2], given.endtab)))
    /\ cursor' = cursor + 1
    /\ UNCHANGED <<cson_file, stack,
                   ini, dat_text, snippets, pc, macro, body, text, trigger, describe,
                   given>>

\* return vsc_snippets / {'.text.tex.latex': atom_snippets} / live_snippets
ReturnConverted ==
    /\ pc = "for"
    /\ cursor = Len(snippets)
    /\ result' = IF given.target = "atom"
                 THEN Dict([k \in {".text.tex.latex"} |-> result])
                 ELSE result
    /\ pc' = "converted"
    /\ UNCHANGED <<cson_file, stack,
                   ini, dat_text, cursor, snippets, macro, body, text, trigger, describe,
                   given>>

NextConvertAll ==
    ConvertNextVscode \/ ConvertNextAtom \/ ConvertNextLive \/ ReturnConverted

SpecConvertAll == InitConvertAll /\ [][NextConvertAll]_vars

\* the triggers of the input list
InputTriggers == {snippets[i].prefix : i \in 1..Len(snippets)}
\* the last record of the input list with trigger t
LastWith(t) == snippets[Max({i \in 1..Len(snippets) : snippets[i].prefix = t})]
\* the map a map-based converter returned
ReturnedMap == IF given.target = "atom" THEN result.val[".text.tex.latex"].val
               ELSE result.val

\* C18: the map-based outputs (convert_all_vscode, convert_all_atom) hold one
\* entry per distinct trigger, the conversion of the last record of the list
\* with that trigger; the list-based output (convert_all_live) has the length
\* and the order of the input, every duplicate kept.
C18_MapsOverwriteListsAppend ==
    pc = "converted" =>
        /\ given.target = "vscode" =>
              /\ DOMAIN ReturnedMap = InputTriggers
              /\ \A t \in InputTriggers :
                    ReturnedMap[t] = convert_one_vsc(LastWith(t), given.decoration[1],
                                                     given.decoration[2], given.endtab)
        /\ given.target = "atom" =>
              /\ DOMAIN result.val = {".text.tex.latex"}
              /\ DOMAIN ReturnedMap = InputTriggers
              /\ \A t \in InputTriggers :
                    ReturnedMap[t] = convert_one_atom(LastWith(t), given.decoration[1],
                                                      given.decoration[2], given.endtab)
        /\ given.target = "live" =>
              /\ Len(result.val) = Len(snippets)
              /\ \A i \in 1..Len(snippets) :
                    result.val[i] = convert_one_live(snippets[i], given.decoration[1],
                                                     given.decoration[2], given.endtab)

\* two records with one trigger and different bodies: the map keeps the later
C18_Witness ==
    /\ pc = "converted"
    /\ given.target = "vscode"
    /\ Len(snippets) = 3
    /\ snippets[1].prefix = "ab" /\ snippets[1].body = Str("a$1")
    /\ snippets[2].prefix = "cd"
    /\ snippets[3].prefix = "ab" /\ snippets[3].body = Str("b")
    /\ DOMAIN result.val = {"ab", "cd"}
    /\ result.val["ab"].body = Str("b")

-----------------------------------------------------------------------------
(* apply_options and its helpers (src/readwrite/write_snippets.py).  A     *)
(* record of the input list is an object: the list `snippets` holds the    *)
(* present state of each input object, and an element of the new list is   *)
(* either a reference to an input object or a copy with a state of its own. *)

Ref(i) == [kind |-> "ref", index |-> i]
\* a function returned the record it was given
Same == [kind |-> "same"]
RaiseWith(e, message) == [kind |-> "raise", val |-> e, args |-> message]

Lowercase == {Char("abcdefghijklmnopqrstuvwxyz", k) : k \in 1..26}

\* TEX_OLD = ^\{\\([a-z][a-z]) $ : group 1 of TEX_OLD.match(s), or None
TEX_OLD(s) ==
    IF /\ HasAt(s, 1, "{\\")
       /\ Char(s, 3) \in Lowercase
       /\ Char(s, 4) \in Lowercase
       /\ HasAt(s, 5, " ")
       /\ AtEnd(s, 6)
    THEN Str(SubSeq(s, 3, 4))
    ELSE None

\* DOUBLE_DOLLAR = \\\$(.*)\\\$ : where a match starting at p can end, that is
\* the positions of a later backslash-dollar with no line break in between
DollarClose(s, p) ==
    { q \in (p + 2)..(Len(s) - 1) :
        HasAt(s, q, "\\$") /\ NoNewline(SubSeq(s, p + 2, q - 1)) }

\* DOUBLE_DOLLAR.sub(r'\(\1\)', s), scanning from position i
RECURSIVE DoubleDollarSubFrom(_, _)
DoubleDollarSubFrom(s, i) ==
    IF i > Len(s) THEN ""
    ELSE IF HasAt(s, i, "\\$") /\ DollarClose(s, i) # {}
         THEN "\\(" \o SubSeq(s, i + 2, Max(DollarClose(s, i)) - 1) \o "\\)"
                \o DoubleDollarSubFrom(s, Max(DollarClose(s, i)) + 2)
    ELSE Char(s, i) \o DoubleDollarSubFrom(s, i + 1)

\* the state of the record after _un_dollar has changed it in place
_un_dollar(snippet) ==
    IF snippet.body.kind = "list" THEN snippet
    ELSE [snippet EXCEPT !.body = Str(DoubleDollarSubFrom(snippet.body.val, 1))]

\* the new record of _modern_vsc for a command
ModernVsc(snippet, command) ==
    [snippet EXCEPT !.mode = "any",
                    !.body = Str("${1|\\text,\\math|}" \o command \o "{$2}")]

\* Same when the record itself is returned, else the copy made
_modern_vsc(snippet) ==
    IF snippet.body.kind # "str" THEN Same
    ELSE IF TEX_OLD(snippet.body.val) = None THEN Same
    ELSE ModernVsc(snippet, TEX_OLD(snippet.body.val).val)

\* the two new records of _modern_live for a command
ModernLive(snippet, command) ==
    [kind |-> "tuple",
     val |-> <<[snippet EXCEPT !.mode = "text",
                               !.body = Str("\\\\text" \o command \o "{$1}")],
               [snippet EXCEPT !.mode = "maths",
                               !.body = Str("\\\\math" \o command \o "{$1}")]>>]

\* Same when the record itself is returned, a tuple of two copies, or the
\* TypeError of TEX_OLD.match on a list
_modern_live(snippet) ==
    IF ~(snippet.body.kind = "str" \/ snippet.mode = "any") THEN Same
    ELSE IF snippet.body.kind # "str" THEN Raise("TypeError")
    ELSE IF TEX_OLD(snippet.body.val) = None THEN Same
    ELSE ModernLive(snippet, TEX_OLD(snippet.body.val).val)

\* an exclusion pattern is a literal text here: rule.match(s) is startswith,
\* rule.search(s) is contains
RuleMatch(rule, s) == startswith(s, rule)
RuleSearch(rule, s) == rule = "" \/ contains(s, rule)

\* what `for line in the_body` runs over: the lines of a list, the
\* characters of a str
Iterated(b) ==
    IF b.kind = "list" THEN b.val ELSE [k \in 1..Len(b.val) |-> Char(b.val, k)]

\* _choose that keeps every record
_choose_all(snippet, prefix, b, multiline, singleline) == TRUE

_choose(snippet, prefix, b, multiline, singleline) ==
    IF ~multiline /\ snippet.body.kind = "list" THEN FALSE
    ELSE IF ~singleline /\ snippet.body.kind # "list" THEN FALSE
    ELSE IF \E r \in 1..Len(prefix) : RuleMatch(prefix[r], snippet.prefix) THEN FALSE
    ELSE IF /\ snippet.body.kind # "list"
            /\ \E r \in 1..Len(b) : RuleSearch(b[r], snippet.body.val) THEN FALSE
    ELSE ~ \E r \in 1..Len(b) : \E k \in 1..Len(Iterated(snippet.body)) :
              RuleSearch(b[r], Iterated(snippet.body)[k])

\* kwds is a sequence of name-value pairs, in the order of the call
OptionNames == {"multiline", "singleline", "textmaths", "dollarfix", "modern"}

\* kwds.pop(name, default)
pop(kwds, name, default) ==
    IF \E k \in 1..Len(kwds) : kwds[k].name = name
    THEN kwds[CHOOSE k \in 1..Len(kwds) : kwds[k].name = name].value
    ELSE default

\* UnknownKeys that stops at the first name it does not know
UnknownKeys_first_only(kwds) ==
    IF SelectSeq(kwds, LAMBDA o : o.name \notin OptionNames) = <<>> THEN <<>>
    ELSE <<SelectSeq(kwds, LAMBDA o : o.name \notin OptionNames)[1].name>>

\* the names left in kwds after the five pops
RECURSIVE UnknownKeys(_)
UnknownKeys(kwds) ==
    IF kwds = <<>> THEN <<>>
    ELSE (IF Head(kwds).name \in OptionNames THEN <<>> ELSE <<Head(kwds).name>>)
           \o UnknownKeys(Tail(kwds))

\* the record after the changes apply_options makes to it in place
InPlace(snippet, kwds) ==
    IF pop(kwds, "dollarfix", FALSE)
    THEN _un_dollar(IF pop(kwds, "textmaths", TRUE) THEN snippet
                    ELSE [snippet EXCEPT !.mode = "any"])
    ELSE IF pop(kwds, "textmaths", TRUE) THEN snippet
    ELSE [snippet EXCEPT !.mode = "any"]

\* what the `if modern:` part makes of the record
Modernized(snippet, kwds) ==
    IF ~pop(kwds, "modern", FALSE) THEN Same
    ELSE IF pop(kwds, "textmaths", TRUE) THEN _modern_live(snippet)
    ELSE _modern_vsc(snippet)

\* new_snippets after the turn for input record i, m being what
\* Modernized gave
Extended(new_snippets, m, i) ==
    IF m.kind = "tuple" THEN List(new_snippets.val \o m.val)
    ELSE IF m.kind = "same" THEN List(Append(new_snippets.val, Ref(i)))
    ELSE List(Append(new_snippets.val, m))

-----------------------------------------------------------------------------
(* apply_options on a list of records (SpecOptions) *)

\* every option with the value that is not its default
AllOptions ==
    <<[name |-> "multiline", value |-> FALSE],
      [name |-> "singleline", value |-> FALSE],
      [name |-> "textmaths", value |-> FALSE],
      [name |-> "dollarfix", value |-> TRUE],
      [name |-> "modern", value |-> TRUE]>>

Chosen(S) == SelectSeq(AllOptions, LAMBDA o : o.name \in S)

\* option names apply_options does not know, in the order of the call
UnknownNames == {<<"endtab">>, <<"prefix_m">>, <<"endtab", "prefix_m">>,
                 <<"prefix_m", "endtab">>}
Named(names) == [k \in 1..Len(names) |-> [name |-> names[k], value |-> TRUE]]

\* calls with known options only and one kind of exclusion pattern at most,
\* and calls with unknown options, first and last in the call
OptionCalls ==
    { [kwds |-> Chosen(S), prefix |-> x[1], body |-> x[2]] :
        S \in SUBSET OptionNames,
        x \in {<<<<>>, <<>>>>, <<<<"c">>, <<>>>>, <<<<>>, <<"x">>>>} }
    \cup
    { [kwds |-> <<Named(u)[1]>> \o Chosen(S) \o Tail(Named(u)),
       prefix |-> <<>>, body |-> <<>>] :
        u \in UnknownNames, S \in {{}, {"textmaths", "dollarfix", "modern"}} }

\* a legacy record, one with a mode, a dollar-delimited span, two multi-line
OptionRecords ==
    { Snippet("ab", Str("{\\bf "), "any", "d"),
      Snippet("cd", Str("{\\it "), "text", "d"),
      Snippet("ab", Str("\\$x\\$"), "maths", "d"),
      Snippet("cd", List(<<"x", "{\\it ">>), "text", "d"),
      Snippet("ab", List(<<"y">>), "any", "d") }
OptionLists == UNION {[1..n -> OptionRecords] : n \in 0..MaxRecords}

InitOptions ==
    /\ given \in { [kwds |-> c.kwds, prefix |-> c.prefix, body |-> c.body, input |-> l] :
                     c \in OptionCalls, l \in OptionLists }
    /\ snippets = given.input
    /\ cursor = 0
    /\ pc = "call"
    /\ cson_file = Unused /\ stack = <<>>
    /\ result = None
    /\ body = None
    /\ text = Unused /\ trigger = Unused /\ describe = None
    /\ ini = Unused /\ dat_text = Unused /\ macro = Unused

\* if kwds: raise KeyError('Unknown key words: ' + ', '.join(kwds.keys()))
RaiseUnknownKeys ==
    /\ pc = "call"
    /\ UnknownKeys(given.kwds) # <<>>
    /\ result' = RaiseWith("KeyError",
                           "Unknown key words: " \o JoinWith(", ", UnknownKeys(given.kwds)))
    /\ pc' = "raised"
    /\ UNCHANGED <<cson_file, stack,
                   ini, dat_text, cursor, snippets, macro, body, text, trigger, describe,
                   given>>

\* new_snippets = []
BeginOptions ==
    /\ pc = "call"
    /\ UnknownKeys(given.kwds) = <<>>
    /\ result' = List(<<>>)
    /\ pc' = "for"
    /\ UNCHANGED <<cson_file, stack,
                   ini, dat_text, cursor, snippets, macro, body, text, trigger, describe,
                   given>>

\* a turn of the loop for a record _choose leaves out
SkipRecord ==
    /\ pc = "for"
    /\ cursor < Len(snippets)
    /\ ~_choose(snippets[cursor + 1], given.prefix, given.body,
                pop(given.kwds, "multiline", TRUE), pop(given.kwds, "singleline", TRUE))
    /\ cursor' = cursor + 1
    /\ UNCHANGED <<cson_file, stack,
                   ini, dat_text, snippets, pc, macro, body, text, trigger, describe,
                   result, given>>

\* a turn of the loop for a record _choose keeps
KeepRecord ==
    /\ pc = "for"
    /\ cursor < Len(snippets)
    /\ _choose(snippets[cursor + 1], given.prefix, given.body,
               pop(given.kwds, "multiline", TRUE), pop(given.kwds, "singleline", TRUE))
    /\ snippets' = [snippets EXCEPT ![cursor + 1] = InPlace(@, given.kwds)]
    /\ Modernized(snippets'[cursor + 1], given.kwds).kind # "raise"
    /\ result' = Extended(result, Modernized(snippets'[cursor + 1], given.kwds), cursor + 1)
    /\ cursor' = cursor + 1
    /\ UNCHANGED <<cson_file, stack,
                   ini, dat_text, pc, macro, body, text, trigger, describe, given>>

\* a turn of the loop in which TEX_OLD.match raises
RaiseInModern ==
    /\ pc = "for"
    /\ cursor < Len(snippets)
    /\ _choose(snippets[cursor + 1], given.prefix, given.body,
               pop(given.kwds, "multiline", TRUE), pop(given.kwds, "singleline", TRUE))
    /\ snippets' = [snippets EXCEPT ![cursor + 1] = InPlace(@, given.kwds)]
    /\ Modernized(snippets'[cursor + 1], given.kwds).kind = "raise"
    /\ result' = Modernized(snippets'[cursor + 1], given.kwds)
    /\ pc' = "raised"
    /\ UNCHANGED <<cson_file, stack,
                   ini, dat_text, cursor, macro, body, text, trigger, describe, given>>

\* return new_snippets
ReturnOptions ==
    /\ pc = "for"
    /\ cursor = Len(snippets)
    /\ pc' = "returned"
    /\ UNCHANGED <<cson_file, stack,
                   ini, dat_text, cursor, snippets, macro, body, text, trigger, describe,
                   result, given>>

NextOptions ==
    \/ RaiseUnknownKeys
    \/ BeginOptions
    \/ SkipRecord
    \/ KeepRecord
    \/ RaiseInModern
    \/ ReturnOptions

SpecOptions == InitOptions /\ [][NextOptions]_vars

\* the option names of the call that apply_options does not know
NotOptions == {given.kwds[k].name : k \in 1..Len(given.kwds)} \ OptionNames

\* C19: when apply_options is called with an option name outside multiline,
\* singleline, textmaths, dollarfix, modern, it fails with an error whose
\* message names every unknown key, before any record is filtered or
\* modified: no record of the input list is changed, nothing is returned.
C19_UnknownOptionsFailFast ==
    (pc # "call" /\ NotOptions # {}) =>
        /\ pc = "raised"
        /\ result.kind = "raise"
        /\ result.val = "KeyError"
        /\ \A name \in NotOptions : contains(result.args, name)
        /\ snippets = given.input
        /\ cursor = 0

\* two unknown names around options that would change a record of the list
C19_Witness ==
    /\ pc = "raised"
    /\ NotOptions = {"endtab", "prefix_m"}
    /\ pop(given.kwds, "dollarfix", FALSE)
    /\ Len(given.input) = 2
    /\ given.input[1].body = Str("\\$x\\$")
    /\ result = RaiseWith("KeyError", "Unknown key words: prefix_m, endtab")
    /\ snippets = given.input

\* references to the records of the input list, from number i on, whose body
\* is a sequence
RECURSIVE ListBodied(_)
ListBodied(i) ==
    IF i > Len(given.input) THEN <<>>
    ELSE (IF given.input[i].body.kind = "list" THEN <<Ref(i)>> ELSE <<>>)
           \o ListBodied(i + 1)

\* C20: apply_options with singleline false, the other options at their
\* defaults and no exclusion patterns, returns in the original order every
\* record whose body is a sequence and no record whose body is a single string.
C20_SinglelineFalseKeepsLists ==
    ( /\ pc = "returned"
      /\ given.kwds = <<[name |-> "singleline", value |-> FALSE]>>
      /\ given.prefix = <<>>
      /\ given.body = <<>> )
    => /\ result = List(ListBodied(1))
       /\ snippets = given.input

\* a single string between two sequences: the two sequences come back
C20_Witness ==
    /\ pc = "returned"
    /\ given.kwds = <<[name |-> "singleline", value |-> FALSE]>>
    /\ given.prefix = <<>>
    /\ given.body = <<>>
    /\ Len(given.input) = 2
    /\ given.input[1].body = Str("{\\bf ")
    /\ given.input[2].body = List(<<"x", "{\\it ">>)
    /\ result = List(<<Ref(2)>>)

\* C21: the records passed to apply_options are never modified in place:
\* whatever textmaths, dollarfix and modern do appears on copies in the
\* returned list only, and every record of the input list has the prefix,
\* body, mode and description after the call that it had before.
C21_InputRecordsNotModified ==
    pc \in {"returned", "raised"} => snippets = given.input

\* what the split of C26 makes of input record i: the text version then the
\* maths version of a single-line legacy body whose mode is any, the record
\* itself otherwise, nothing when the filter leaves it out
SplitExpected(i) ==
    IF ~_choose(given.input[i], given.prefix, given.body,
                pop(given.kwds, "multiline", TRUE), pop(given.kwds, "singleline", TRUE))
    THEN <<>>
    ELSE IF /\ given.input[i].body.kind = "str"
            /\ TEX_OLD(given.input[i].body.val) # None
            /\ given.input[i].mode = "any"
    THEN ModernLive(given.input[i], TEX_OLD(given.input[i].body.val).val).val
    ELSE <<Ref(i)>>

RECURSIVE SplitExpectedFrom(_)
SplitExpectedFrom(i) ==
    IF i > Len(given.input) THEN <<>>
    ELSE SplitExpected(i) \o SplitExpectedFrom(i + 1)

\* C26: with modern true and textmaths true (dollarfix off), apply_options
\* returns, in input order, two records (text then maths) for a record whose
\* body is a single-line string of the legacy shape and whose mode is any,
\* and every other record that passes the filter once and unchanged.
C26_SplitExactlyLegacyAny ==
    ( /\ pc \in {"returned", "raised"}
      /\ UnknownKeys(given.kwds) = <<>>
      /\ pop(given.kwds, "modern", FALSE)
      /\ pop(given.kwds, "textmaths", TRUE)
      /\ ~pop(given.kwds, "dollarfix", FALSE) )
    => /\ pc = "returned"
       /\ result = List(SplitExpectedFrom(1))
       /\ snippets = given.input

-----------------------------------------------------------------------------
(* choose_mode on the bodies and triggers of imported records (SpecMode) *)

\* lines and single-line bodies that reach every rule of choose_mode
ModeLines == {"", "a_b", "\\frac", "\\$a\\$"}
ModeTexts == {"a", "\\$a\\$", "\\a", "(a", "a^b", "\\textstyle", "\\text{}",
              "\\section", "\\sqrt", "\\fracas"}
ModeBodies ==
    {Str(t) : t \in ModeTexts}
      \cup {List(l) : l \in UNION {[1..n -> ModeLines] : n \in 0..MaxBodyLines}}
ModeTriggers == {"mxe", "mx", "mab", "m", "xmx", "wab", "oab", "ab"}

InitMode ==
    /\ body \in ModeBodies
    /\ trigger \in ModeTriggers
    /\ pc = "body"
    /\ cson_file = Unused /\ stack = <<>>
    /\ result = None
    /\ describe = None /\ text = Unused
    /\ ini = Unused /\ dat_text = Unused /\ cursor = 0 /\ snippets = Unused
    /\ macro = Unused /\ given = Unused

ChooseMode ==
    /\ pc = "body"
    /\ result' = choose_mode(body, trigger)
    /\ pc' = "chosen"
    /\ UNCHANGED <<cson_file, stack,
                   ini, dat_text, cursor, snippets, macro, text, trigger, body, describe,
                   given>>

NextMode == ChooseMode

SpecMode == InitMode /\ [][NextMode]_vars

\* C27: for a record with a multi-line body choose_mode returns maths exactly
\* when the trigger starts with the two characters mx and text otherwise,
\* whatever the lines of the body are; with the single-line rules the mode of
\* every record is one of text, maths, any.
C27_MultilineModeByTrigger ==
    pc = "chosen" =>
        /\ result.kind = "str"
        /\ result.val \in {"text", "maths", "any"}
        /\ body.kind = "list" =>
              /\ result.val = "maths" <=> (Len(trigger) >= 2 /\ SubSeq(trigger, 1, 2) = "mx")
              /\ result.val = "text" <=> ~(Len(trigger) >= 2 /\ SubSeq(trigger, 1, 2) = "mx")

\* a multi-line body full of maths under a trigger that starts with m but
\* not with mx: text
C27_Witness ==
    /\ pc = "chosen"
    /\ body = List(<<"a_b", "\\frac">>)
    /\ trigger = "mab"
    /\ result = Str("text")

-----------------------------------------------------------------------------
(* CSONWriter (src/readwrite/cson.py).  A value given to the writer is a   *)
(* tagged record; a mapping is the sequence of its items, in the order of  *)
(* dict.items().                                                           *)

Bool(b) == [kind |-> "bool", val |-> b]
Num(n) == [kind |-> "int", val |-> n]
Mapping(items) == [kind |-> "mapping", val |-> items]
\* object(): a value of a type the writer does not know; val is the type name
Object == [kind |-> "object", val |-> "object"]

\* isinstance(data, Mapping)
IsMapping(data) == data.kind = "mapping"
\* isinstance(data, Iterable), for data that is neither str nor Mapping:
\* whatever can be iterated is written as a sequence
IsIterable(data) == data.kind = "list"
\* isinstance(data, Number): bool is a subclass of int
IsNumber(data) == data.kind \in {"int", "bool"}

\* the else branch of write that lets every value through
IsUnknown_none(data) == FALSE

\* the else branch of write
IsUnknown(data) ==
    ~(data.kind = "str" \/ IsMapping(data) \/ IsIterable(data) \/ IsNumber(data)
        \/ data.kind = "bool" \/ data = None)

\* ' ' * n
RECURSIVE Spaces(_)
Spaces(n) == IF n <= 0 THEN "" ELSE " " \o Spaces(n - 1)

\* what write_raw(text, started, ended) writes to self.file
write_raw(self, t, started, ended) ==
    (IF started THEN Spaces(self.indent * self.level) ELSE "")
      \o t \o (IF ended THEN "\n" ELSE "")

\* str.splitlines() for the line break \n: the lines of t from position i
\* on, the line being read having begun at position start
RECURSIVE SplitFrom(_, _, _)
SplitFrom(t, i, start) ==
    IF i > Len(t) THEN (IF start > Len(t) THEN <<>> ELSE <<SubSeq(t, start, Len(t))>>)
    ELSE IF Char(t, i) = "\n"
    THEN <<SubSeq(t, start, i - 1)>> \o SplitFrom(t, i + 1, i + 1)
    ELSE SplitFrom(t, i + 1, start)

splitlines(t) == SplitFrom(t, 1, 1)

\* for line in text.splitlines(): self.write_raw(line, True, True)
RECURSIVE WriteLines(_, _)
WriteLines(self, lines) ==
    IF lines = <<>> THEN ""
    ELSE write_raw(self, Head(lines), TRUE, TRUE) \o WriteLines(self, Tail(lines))

\* write_str that quotes every string inline
write_str_inline(self, t) == write_raw(self, "\"" \o t \o "\"", FALSE, FALSE)

write_str(self, t) ==
    IF contains(t, "\n")
    THEN write_raw(self, "\"\"\"", FALSE, TRUE)
           \o WriteLines(self, splitlines(t))
           \o write_raw(self, "\"\"\"", TRUE, FALSE)
    ELSE write_raw(self, "\"" \o t \o "\"", FALSE, FALSE)

\* str(value) of a number
PyStr(value) ==
    IF value.kind = "bool" THEN (IF value.val THEN "True" ELSE "False")
    ELSE IntStr(value.val)

write_num(self, value) == write_raw(self, PyStr(value), FALSE, FALSE)

write_bool(self, value) ==
    IF value.val THEN write_raw(self, "true", FALSE, FALSE)
    ELSE write_raw(self, "false", FALSE, FALSE)

write_null(self) == write_raw(self, "null", FALSE, FALSE)

\* the branch of write taken for data that is no container
WriteLeaf(self, data) ==
    IF data.kind = "str" THEN write_str(self, data.val)
    ELSE IF IsNumber(data) THEN write_num(self, data)
    ELSE IF data.kind = "bool" THEN write_bool(self, data)
    ELSE IF data = None THEN write_null(self)
    ELSE ""

\* write_dict before the entries, that opens a brace under a dict as well
DictOpen_always(self) == write_raw(self, "{", FALSE, TRUE)

\* write_dict before the entries
DictOpen(self) ==
    IF self.parent = "list" THEN write_raw(self, "{", FALSE, TRUE)
    ELSE IF self.parent = "dict" THEN write_raw(self, "", FALSE, TRUE)
    ELSE ""

\* write_dict after the entries
DictClose(self) ==
    IF self.parent = "list" THEN write_raw(self, "}", TRUE, FALSE)
    ELSE write_raw(self, "", FALSE, FALSE)

\* len(thing), one more under a list
Remaining(self, thing) == Len(thing.val) + (IF self.parent = "list" THEN 1 ELSE 0)

\* indented(parent).__enter__
Entered(self, parent) == [self EXCEPT !.parent = parent, !.level = @ + 1]

\* indented without try/finally: an error leaves level and parent as they are
Exited_no_finally(self, frame, raising) ==
    IF raising THEN self
    ELSE [self EXCEPT !.level = @ - 1, !.parent = frame.old_parent]

\* the finally part of indented, on return and on error alike
Exited(self, frame, raising) ==
    [self EXCEPT !.level = @ - 1, !.parent = frame.old_parent]

\* the call of write_dict or write_list entered for `thing`: the entries not
\* yet written, the count `remaining`, old_parent of its indented() and the
\* argument `ended` of the write call that made it
Frame(kind, self, thing, ended) ==
    [kind |-> kind, items |-> thing.val, remaining |-> Remaining(self, thing),
     old_parent |-> self.parent, ended |-> ended]

-----------------------------------------------------------------------------
(* dump on a nested value (SpecCson) *)

CsonLeaves == {None, Bool(TRUE), Bool(FALSE), Num(1), Str("x"), Str("x\ny"), Object}

\* the items of a dict with the keys a, b, c, ..., in this order
Keyed(f) == [k \in 1..Len(f) |-> [key |-> Char("abcdefgh", k), value |-> f[k]]]

\* the values of exactly n nodes, given the sequences of values of n - 1 nodes
\* in all
TreesOver(n, forests) ==
    (IF n = 1 THEN CsonLeaves ELSE {})
      \cup {List(f) : f \in forests}
      \cup {Mapping(Keyed(f)) : f \in forests}

\* the sequences of values of n nodes in all, given the values (trees[k]) and
\* the sequences (forests[k + 1]) of fewer nodes
ForestsOver(n, trees, forests) ==
    UNION { {<<t>> \o f : t \in trees[k], f \in forests[n - k + 1]} : k \in 1..n }

\* rows 1..n: row k holds the values of exactly k nodes and the sequences of
\* values of k - 1 nodes in all
RECURSIVE TreeRows(_)
GrowRows(n, rows) ==
    Append(rows,
           [forests |-> ForestsOver(n - 1, [k \in 1..(n - 1) |-> rows[k].trees],
                                    [k \in 1..(n - 1) |-> rows[k].forests]),
            trees |-> {}])
FillRow(n, rows) ==
    [rows EXCEPT ![n].trees = TreesOver(n, rows[n].forests)]
TreeRows(n) ==
    IF n = 1 THEN <<[forests |-> {<<>>}, trees |-> TreesOver(1, {<<>>})]>>
    ELSE FillRow(n, GrowRows(n, TreeRows(n - 1)))

\* the rows for the values inside a container of the structure
CsonRows == TreeRows(MaxNodes - 1)

\* the containers over a sequence of values
Containers(f) == {List(f), Mapping(Keyed(f))}

\* cson.dump(snippets, file, indent=4) of atom.py and
\* cson.dump(snippets, file, indent=4, level=-1) of write_snippets.py
DumpCalls == {[indent |-> 4, level |-> 0], [indent |-> 4, level |-> -1]}

InitCson ==
    /\ \E c \in DumpCalls :
          \/ \E v \in CsonLeaves \cup Containers(<<>>) :
                given = [obj |-> v, indent |-> c.indent, level |-> c.level]
          \/ \E n \in 1..(MaxNodes - 1) : \E j \in 1..n :
                \E t \in CsonRows[j].trees : \E f \in CsonRows[n - j + 1].forests :
                   \E v \in Containers(<<t>> \o f) :
                      given = [obj |-> v, indent |-> c.indent, level |-> c.level]
    /\ cson_file = [file |-> "", indent |-> given.indent, level |-> given.level,
                    parent |-> ""]
    /\ stack = <<>>
    /\ pc = "dump"
    /\ result = None
    /\ body = None /\ describe = None /\ text = Unused /\ trigger = Unused
    /\ ini = Unused /\ dat_text = Unused /\ cursor = 0 /\ snippets = Unused
    /\ macro = Unused

Top == stack[Len(stack)]
Below == SubSeq(stack, 1, Len(stack) - 1)

\* a call of write is due: that of dump, or that for the next entry of the
\* innermost write_dict or write_list
HasPending == pc = "dump" \/ (pc = "writing" /\ stack # <<>> /\ Top.items # <<>>)

\* its arguments data, started, ended
PendingData ==
    IF pc = "dump" THEN given.obj
    ELSE IF Top.kind = "list" THEN Head(Top.items)
    ELSE Head(Top.items).value
PendingStarted == pc # "dump" /\ Top.kind = "list"
PendingEnded ==
    IF pc = "dump" THEN TRUE
    ELSE IF Top.kind = "list" THEN TRUE
    ELSE Top.remaining - 1 # 0

\* self.write_raw(f'"{key}": ', True, False) of write_dict, then
\* self.write_raw('', started, False) of write
Lead ==
    (IF pc # "dump" /\ Top.kind = "dict"
     THEN write_raw(cson_file, "\"" \o Head(Top.items).key \o "\": ", TRUE, FALSE)
     ELSE "")
      \o write_raw(cson_file, "", PendingStarted, FALSE)

\* the calls in progress once the loop has taken the entry
Consumed ==
    IF pc = "dump" THEN <<>>
    ELSE IF Top.kind = "list" THEN Append(Below, [Top EXCEPT !.items = Tail(@)])
    ELSE Append(Below, [Top EXCEPT !.items = Tail(@), !.remaining = @ - 1])

\* write of a str, a number or None: the whole call
WriteScalar ==
    /\ HasPending
    /\ ~IsUnknown(PendingData) /\ ~IsMapping(PendingData) /\ ~IsIterable(PendingData)
    /\ cson_file' = [cson_file EXCEPT !.file =
                        @ \o Lead \o WriteLeaf(cson_file, PendingData)
                          \o write_raw(cson_file, "", FALSE, PendingEnded)]
    /\ stack' = Consumed
    /\ pc' = IF pc = "dump" THEN "returned" ELSE "writing"
    /\ UNCHANGED <<ini, dat_text, cursor, snippets, macro, body, text, trigger, describe,
                   result, given>>

\* write of a Mapping up to the loop of write_dict
WriteDict ==
    /\ HasPending
    /\ IsMapping(PendingData)
    /\ cson_file' = Entered([cson_file EXCEPT !.file = @ \o Lead \o DictOpen(cson_file)],
                            "dict")
    /\ stack' = Append(Consumed, Frame("dict", cson_file, PendingData, PendingEnded))
    /\ pc' = "writing"
    /\ UNCHANGED <<ini, dat_text, cursor, snippets, macro, body, text, trigger, describe,
                   result, given>>

\* write of an Iterable up to the loop of write_list
WriteList ==
    /\ HasPending
    /\ ~IsMapping(PendingData) /\ IsIterable(PendingData)
    /\ cson_file' = Entered([cson_file EXCEPT !.file =
                                @ \o Lead \o write_raw(cson_file, "[", FALSE, TRUE)],
                            "list")
    /\ stack' = Append(Consumed, Frame("list", cson_file, PendingData, PendingEnded))
    /\ pc' = "writing"
    /\ UNCHANGED <<ini, dat_text, cursor, snippets, macro, body, text, trigger, describe,
                   result, given>>

\* raise TypeError(f'Unknown data type: {type(data)}.')
RaiseTypeError ==
    /\ HasPending
    /\ IsUnknown(PendingData)
    /\ cson_file' = [cson_file EXCEPT !.file = @ \o Lead]
    /\ stack' = Consumed
    /\ result' = RaiseWith("TypeError",
                           "Unknown data type: <class '" \o PendingData.val \o "'>.")
    /\ pc' = IF stack' = <<>> THEN "raised" ELSE "raising"
    /\ UNCHANGED <<ini, dat_text, cursor, snippets, macro, body, text, trigger, describe,
                   given>>

\* the end of the loop of write_dict, and of the write call that made it
EndDict ==
    /\ pc = "writing"
    /\ stack # <<>> /\ Top.items = <<>> /\ Top.kind = "dict"
    /\ cson_file' = [Exited(cson_file, Top, FALSE) EXCEPT !.file =
                        @ \o DictClose(Exited(cson_file, Top, FALSE))
                          \o write_raw(cson_file, "", FALSE, Top.ended)]
    /\ stack' = Below
    /\ pc' = IF stack' = <<>> THEN "returned" ELSE "writing"
    /\ UNCHANGED <<ini, dat_text, cursor, snippets, macro, body, text, trigger, describe,
                   result, given>>

\* the end of the loop of write_list, and of the write call that made it
EndList ==
    /\ pc = "writing"
    /\ stack # <<>> /\ Top.items = <<>> /\ Top.kind = "list"
    /\ cson_file' = [Exited(cson_file, Top, FALSE) EXCEPT !.file =
                        @ \o write_raw(Exited(cson_file, Top, FALSE), "]", TRUE, FALSE)
                          \o write_raw(cson_file, "", FALSE, Top.ended)]
    /\ stack' = Below
    /\ pc' = IF stack' = <<>> THEN "returned" ELSE "writing"
    /\ UNCHANGED <<ini, dat_text, cursor, snippets, macro, body, text, trigger, describe,
                   result, given>>

\* the error leaves the innermost write_dict or write_list through indented
Propagate ==
    /\ pc = "raising"
    /\ stack # <<>>
    /\ cson_file' = Exited(cson_file, Top, TRUE)
    /\ stack' = Below
    /\ pc' = IF stack' = <<>> THEN "raised" ELSE "raising"
    /\ UNCHANGED <<ini, dat_text, cursor, snippets, macro, body, text, trigger, describe,
                   result, given>>

NextCson ==
    \/ WriteScalar
    \/ WriteDict
    \/ WriteList
    \/ RaiseTypeError
    \/ EndDict
    \/ EndList
    \/ Propagate

SpecCson == InitCson /\ [][NextCson]_vars

-----------------------------------------------------------------------------
(* Properties of the writer (SpecCson): read off the text of the file      *)

\* the values directly inside a container
Children(v) ==
    IF v.kind = "mapping" THEN [k \in 1..Len(v.val) |-> v.val[k].value] ELSE v.val

\* the leaves of a value that are in the set `leaves`, each with the number
\* of containers around it, in the order of writing
RECURSIVE LeafDepths(_, _, _), LeafDepthsIn(_, _, _)
LeafDepths(v, depth, leaves) ==
    IF v.kind \in {"list", "mapping"} THEN LeafDepthsIn(Children(v), depth + 1, leaves)
    ELSE IF v \in leaves THEN <<depth>>
    ELSE <<>>
LeafDepthsIn(items, depth, leaves) ==
    IF items = <<>> THEN <<>>
    ELSE LeafDepths(Head(items), depth, leaves)
           \o LeafDepthsIn(Tail(items), depth, leaves)

\* the strings with a line break, and those without
BlockStrings == {v \in CsonLeaves : v.kind = "str" /\ contains(v.val, "\n")}
InlineStrings == {v \in CsonLeaves : v.kind = "str" /\ ~contains(v.val, "\n")}

\* the numbers of the lines that end with the block delimiter
Delimiters(lines) ==
    SelectSeq([i \in 1..Len(lines) |-> i], LAMBDA i : endswith(lines[i], "\"\"\""))

\* the indent of the writer under `depth` containers
IndentAt(depth) == Spaces(given.indent * (given.level + depth))

\* lines i .. i+3 are a block string of the lines x and y at this indent
BlockAt(lines, i, ind) ==
    /\ i + 3 <= Len(lines)
    /\ endswith(lines[i], "\"\"\"")
    /\ lines[i + 1] = ind \o "x"
    /\ lines[i + 2] = ind \o "y"
    /\ lines[i + 3] = ind \o "\"\"\""

BlocksWritten(lines, delims, depths) ==
    /\ Len(delims) = 2 * Len(depths)
    /\ \A k \in 1..Len(depths) :
          /\ delims[2 * k] = delims[2 * k - 1] + 3
          /\ BlockAt(lines, delims[2 * k - 1], IndentAt(depths[k]))

\* the value {a: [1, 'x' newline 'y']}
BlockExample == Mapping(Keyed(<<List(<<Num(1), Str("x\ny")>>)>>))

\* C22: a string with a line break is written as a block string: the opening
\* delimiter, each of its lines on a line of its own at the current indent,
\* the closing delimiter at the current indent; a string without a line break
\* is written quoted on the current line.  For {a: [1, 'x' newline 'y']} at
\* indent width 4 the lines x and y are one level deeper than the line that
\* carries the opening bracket of the sequence.
C22_BlockStringForLineBreak ==
    pc = "returned" =>
        /\ BlocksWritten(splitlines(cson_file.file),
                         Delimiters(splitlines(cson_file.file)),
                         LeafDepths(given.obj, 0, BlockStrings))
        /\ count(cson_file.file, "\"x\"") = Len(LeafDepths(given.obj, 0, InlineStrings))
        /\ (given.obj = BlockExample /\ given.level = 0) =>
              cson_file.file = "    \"a\": [\n"
                                 \o "        1\n"
                                 \o "        \"\"\"\n"
                                 \o "        x\n"
                                 \o "        y\n"
                                 \o "        \"\"\"\n"
                                 \o "    ]\n"

\* the example of C22 has been written
C22_Witness ==
    /\ pc = "returned"
    /\ given.obj = BlockExample
    /\ given.level = 0
    /\ Len(Delimiters(splitlines(cson_file.file))) = 2

\* the mappings in a value whose immediate container is a sequence, the
\* value being inside `container`
RECURSIVE MappingsInLists(_, _), MappingsInListsOf(_, _)
MappingsInLists(v, container) ==
    IF v.kind \in {"list", "mapping"}
    THEN (IF v.kind = "mapping" /\ container = "list" THEN 1 ELSE 0)
           + MappingsInListsOf(Children(v), v.kind)
    ELSE 0
MappingsInListsOf(items, container) ==
    IF items = <<>> THEN 0
    ELSE MappingsInLists(Head(items), container) + MappingsInListsOf(Tail(items), container)

\* the entries of all the mappings in a value
RECURSIVE Entries(_), EntriesOf(_)
Entries(v) ==
    IF v.kind \in {"list", "mapping"}
    THEN (IF v.kind = "mapping" THEN Len(v.val) ELSE 0) + EntriesOf(Children(v))
    ELSE 0
EntriesOf(items) ==
    IF items = <<>> THEN 0 ELSE Entries(Head(items)) + EntriesOf(Tail(items))

Closer(bracket) == IF bracket = "[" THEN "]" ELSE "}"

\* from line i on, every line that is a closing bracket closes the last
\* bracket left open, at its margin, and none is left open at the end; open
\* holds the brackets left open by the lines before, with their margins
RECURSIVE Balanced(_, _, _), BalancedLine(_, _, _, _)
Balanced(lines, i, open) ==
    IF i > Len(lines) THEN open = <<>>
    ELSE BalancedLine(lines, i, open, lstrip(lines[i], {" "}))
BalancedLine(lines, i, open, stripped) ==
    IF stripped \in {"]", "}"}
    THEN /\ open # <<>>
         /\ Closer(open[Len(open)].bracket) = stripped
         /\ open[Len(open)].margin = Len(lines[i]) - Len(stripped)
         /\ Balanced(lines, i + 1, SubSeq(open, 1, Len(open) - 1))
    ELSE IF endswith(stripped, "[") \/ endswith(stripped, "{")
    THEN Balanced(lines, i + 1,
                  Append(open, [bracket |-> Char(stripped, Len(stripped)),
                                margin |-> Len(lines[i]) - Len(stripped)]))
    ELSE Balanced(lines, i + 1, open)

\* a line holds one key at most, and the key is the first thing on it
KeysStartLines(lines) ==
    \A i \in 1..Len(lines) :
        contains(lines[i], "\": ") =>
            /\ count(lines[i], "\": ") = 1
            /\ startswith(lstrip(lines[i], {" "}), "\"")

\* C23: a mapping is written with an opening { and a closing } exactly when
\* its immediate container is a sequence; at top level or as the value of a
\* mapping it gets no braces and its entries start on a new line.  Every {
\* and [ written is closed by a matching } or ] at the same indent, whatever
\* is nested in between.
C23_BracesExactlyUnderSequence ==
    pc = "returned" =>
        /\ count(cson_file.file, "{") = MappingsInLists(given.obj, "")
        /\ count(cson_file.file, "}") = MappingsInLists(given.obj, "")
        /\ count(cson_file.file, "\": ") = Entries(given.obj)
        /\ KeysStartLines(splitlines(cson_file.file))
        /\ Balanced(splitlines(cson_file.file), 1, <<>>)

\* a mapping as the value of a mapping inside a sequence: one pair of braces
C23_Witness ==
    /\ pc = "returned"
    /\ given.obj = List(<<Mapping(Keyed(<<Mapping(Keyed(<<Num(1)>>))>>))>>)
    /\ given.level = 0
    /\ cson_file.file = "[\n"
                          \o "    {\n"
                          \o "        \"a\": \n"
                          \o "            \"a\": 1\n"
                          \o "    }\n"
                          \o "]\n"

\* the writer does not know the type of some value inside v
RECURSIVE HasUnknown(_)
HasUnknown(v) ==
    IF v.kind \in {"list", "mapping"}
    THEN \E k \in 1..Len(v.val) : HasUnknown(Children(v)[k])
    ELSE v = Object

\* C24: writing a value whose type is none of null, boolean, number, string,
\* sequence or mapping, at any nesting depth, fails with an error that names
\* the type; no rendering of such a value is written and it is never skipped:
\* dump returns only when there is no such value in the structure.
C24_UnknownTypeRaises ==
    /\ pc = "returned" => ~HasUnknown(given.obj)
    /\ pc \in {"raising", "raised"} =>
          /\ HasUnknown(given.obj)
          /\ result.kind = "raise"
          /\ result.val = "TypeError"
          /\ contains(result.args, "<class '" \o Object.val \o "'>")
          /\ ~contains(cson_file.file, Object.val)

\* the unknown value is two containers deep, after a value that was written
C24_Witness ==
    /\ pc = "raised"
    /\ given.obj = List(<<Num(1), Mapping(Keyed(<<Object>>))>>)
    /\ given.level = 0
    /\ result = RaiseWith("TypeError", "Unknown data type: <class 'object'>.")
    /\ cson_file.file = "[\n"
                          \o "    1\n"
                          \o "    {\n"
                          \o "        \"a\": "

\* C25: a boolean given to write, at top level, as the value of a mapping or
\* as an element of a sequence, is written by write_bool as the lowercase
\* token true or false, not by the branch for numbers.
C25_BooleansLowercase ==
    pc = "returned" =>
        /\ count(cson_file.file, "true") = Len(LeafDepths(given.obj, 0, {Bool(TRUE)}))
        /\ count(cson_file.file, "false") = Len(LeafDepths(given.obj, 0, {Bool(FALSE)}))
        /\ ~contains(cson_file.file, "True")
        /\ ~contains(cson_file.file, "False")

\* C28: the indent state of the writer is balanced.  While an entry of a
\* mapping or sequence is being written, level is the starting level plus the
\* nesting depth and parent names the immediate container; after write_dict,
\* write_list and the top-level write have finished, by a return or by an
\* error of a nested write, level and parent are what they were before.
C28_IndentBalanced ==
    /\ pc \in {"writing", "raising"} =>
          /\ stack # <<>>
          /\ cson_file.level = given.level + Len(stack)
          /\ cson_file.parent = Top.kind
          /\ \A k \in 1..Len(stack) :
                stack[k].old_parent = IF k = 1 THEN "" ELSE stack[k - 1].kind
    /\ pc \in {"returned", "raised"} =>
          /\ stack = <<>>
          /\ cson_file.level = given.level
          /\ cson_file.parent = ""
    /\ cson_file.indent = given.indent

\* an error two containers deep has left both of them
C28_Witness ==
    /\ pc = "raised"
    /\ given.obj = List(<<Mapping(Keyed(<<Num(1), Object>>))>>)
    /\ given.level = -1
    /\ result.kind = "raise"
    /\ stack = <<>>
    /\ cson_file.level = -1
    /\ cson_file.parent = ""

====
